---- MODULE Spec2Model ----
(***************************************************************************)
(* The video processing pipeline of src/youtube: the VideoWorkflow          *)
(* coordinator (shared/workflows.py), the activities it dispatches          *)
(* (worker/activities/*.py) and the storage key layout (shared/storage.py). *)
(*                                                                          *)
(* The coordinator is one sequential process (pc).  Every activity it       *)
(* dispatches is executed by a worker, one attempt per step, under the      *)
(* retry policy the coordinator passes to execute_activity.  An attempt     *)
(* either reports its result, or fails (exception, timeout, worker crash)   *)
(* and is retried until the policy's maximum_attempts is used up.           *)
(***************************************************************************)
EXTENDS Integers, Sequences, FiniteSets, TLC

\* ---------------------------------------------------------------- bounds
\* longest requested resolution list drawn as an input
MaxReq == 3
\* largest transcode grid (chunks x target resolutions) a run is given
MaxUnits == 4
\* largest transcode grid of a run whose coordinator may crash
MaxCrashUnits == 2

\* largest transcode grid of a run whose status is queried
MaxQueryUnits == 1
\* most rows of the tasks table
MaxTasks == 2
\* most grab-task requests
MaxGrabs == 3
\* most parts of a multipart upload
MaxParts == 2
\* most upload-part requests of a session
MaxPartUploads == 3
\* most complete requests of a session
MaxCompletes == 2
\* most upload requests sent to the sync server
MaxSyncUploads == 2
\* most content updates of the drive file, one per session
MaxDriveUpdates == 3
\* longest video, in seconds, given to detect_scenes
MaxDuration == 8
\* most scene changes ffmpeg reports for one video
MaxScenes == 3

\* ------------------------------------------------------ program constants
DefaultMaxAttempts == 3

VideoId == "vid"

\* resolution names a caller puts in options.target_resolutions
RequestNames == {"320p", "480p"}

\* heights ffprobe may report for the source
SourceHeights == {320, 480, 720}

ThumbnailModes == {"none", "auto"}

\* names a caller may put in a request when only the resolution policy is
\* followed: the ladder and a name that is not on it
PolicyNames == {"320p", "480p", "720p", "1080p", "4k"}

\* source heights below, on, between and above the rungs of the ladder
PolicyHeights == {240, 320, 321, 480, 720, 1080, 1081, 2160}

None == "None"

\* run() has not returned
NoResult == [success |-> FALSE, stage |-> "running", error |-> None,
             variants |-> <<>>,
             master_playlist |-> None, errors |-> <<>>, warnings |-> <<>>,
             thumbnail |-> None, chapters |-> None]

Min(a, b) == IF a < b THEN a ELSE b

RECURSIVE Pow(_, _)
Pow(b, e) == IF e = 0 THEN 1 ELSE b * Pow(b, e - 1)

\* all sequences over S of length at most n
SeqsUpTo(S, n) == UNION {[1..k -> S] : k \in 0..n}

Range(s) == {s[i] : i \in DOMAIN s}

\* ------------------------------------------------------ resolution policy
RESOLUTION_HEIGHTS == [r \in {"320p", "480p", "720p", "1080p"} |->
    CASE r = "320p" -> 320
      [] r = "480p" -> 480
      [] r = "720p" -> 720
      [] r = "1080p" -> 1080]

VALID_RESOLUTIONS == DOMAIN RESOLUTION_HEIGHTS

\* the ladder from the lowest rung up
LadderAscending == <<"320p", "480p", "720p", "1080p">>

\* the ladder as sorted(RESOLUTION_HEIGHTS.items(), key=lambda x: -x[1])
LadderDescending == <<"1080p", "720p", "480p", "320p">>

\* insert x into a list sorted by descending height, after its equals
\* (Python's sorted is stable)
RECURSIVE InsertByHeight(_, _)
InsertByHeight(x, s) ==
    IF s = <<>> THEN <<x>>
    ELSE IF RESOLUTION_HEIGHTS[Head(s)] >= RESOLUTION_HEIGHTS[x]
         THEN <<Head(s)>> \o InsertByHeight(x, Tail(s))
         ELSE <<x>> \o s

\* sorted(valid, key=lambda x: -RESOLUTION_HEIGHTS[x])
\* a sort that leaves the list as the caller wrote it
SortAsRequested(s) == s

RECURSIVE SortHighestFirst(_)
SortHighestFirst(s) ==
    IF s = <<>> THEN <<>>
    ELSE InsertByHeight(s[Len(s)], SortHighestFirst(SubSeq(s, 1, Len(s) - 1)))

\* a policy that lets the source's own rung through
determine_target_resolutions_upto(source_height, requested) ==
    IF requested # <<>>
    THEN SortHighestFirst(SelectSeq(requested,
             LAMBDA res : res \in VALID_RESOLUTIONS
                          /\ RESOLUTION_HEIGHTS[res] <= source_height))
    ELSE SelectSeq(LadderDescending,
             LAMBDA name : RESOLUTION_HEIGHTS[name] <= source_height)

\* requested is <<>> for an empty list and for None alike (`if requested:`)
determine_target_resolutions(source_height, requested) ==
    IF requested # <<>>
    THEN SortHighestFirst(SelectSeq(requested,
             LAMBDA res : res \in VALID_RESOLUTIONS
                          /\ RESOLUTION_HEIGHTS[res] < source_height))
    ELSE SelectSeq(LadderDescending,
             LAMBDA name : RESOLUTION_HEIGHTS[name] < source_height)

\* an options dict is a function from the keys it holds; <<>> is the dict
\* without keys, which is also what run() makes of options=None
\* (`options or {}`)
PolicyOptionDicts ==
    {<<>>, [quality_preset |-> "medium"]}
    \cup {[target_resolutions |-> r] : r \in SeqsUpTo(PolicyNames, MaxReq)}

\* ProcessingOptions(): the defaults of the dataclasses
DefaultProcessingOptions ==
    [target_resolutions |-> <<>>, thumbnail_mode |-> "none",
     chapters_enabled |-> FALSE]

\* ProcessingOptions.from_dict for a dict without thumbnail and chapters keys
from_dict(data) ==
    IF DOMAIN data = {}
    THEN DefaultProcessingOptions
    ELSE [target_resolutions |-> IF "target_resolutions" \in DOMAIN data
                                 THEN data.target_resolutions
                                 ELSE <<>>,
          thumbnail_mode |-> "none",
          chapters_enabled |-> FALSE]

\* ------------------------------------------------------------ retry policy
get_retry_policy(max_attempts) ==
    [initial_interval |-> 2, backoff_coefficient |-> 2,
     maximum_interval |-> 30, maximum_attempts |-> max_attempts]

retry_policy == get_retry_policy(DefaultMaxAttempts)

\* a server that waits the initial interval before every retry
RetryIntervalFixed(policy, k) == policy.initial_interval

\* seconds the server waits after the k-th failed attempt before it starts
\* attempt k+1
RetryInterval(policy, k) ==
    Min(policy.initial_interval * Pow(policy.backoff_coefficient, k - 1),
        policy.maximum_interval)

\* ------------------------------------------------------------ storage keys
Pad4(i) == ToString((i \div 1000) % 10) \o ToString((i \div 100) % 10)
           \o ToString((i \div 10) % 10) \o ToString(i % 10)

source_video(video_id) == video_id \o "/source/source.mp4"

\* the object extract_metadata downloads: f"{video_id}.mp4"
metadata_source(video_id) == video_id \o ".mp4"

source_chunk(video_id, chunk_index) ==
    video_id \o "/source/chunks/chunk_" \o Pad4(chunk_index) \o ".mp4"

source_manifest(video_id) == video_id \o "/source/manifest.json"

output_segment(video_id, resolution, segment_index) ==
    video_id \o "/outputs/" \o resolution \o "/segments/seg_"
    \o Pad4(segment_index) \o ".ts"

variant_playlist(video_id, resolution) ==
    video_id \o "/outputs/" \o resolution \o "/playlist.m3u8"

master_playlist(video_id) == video_id \o "/outputs/master.m3u8"

thumbnail_path(video_id) == "thumbnails:" \o video_id \o "/thumbnail.jpg"

chapters_json(video_id) == video_id \o "/outputs/chapters.json"

chapters_vtt(video_id) == video_id \o "/outputs/chapters.vtt"

chapters_hls(video_id) == video_id \o "/outputs/chapters_hls.txt"

\* --------------------------------------------------------------- activities
\* An activity the coordinator has not dispatched is "idle"; a dispatched one
\* is "pending" until an attempt reports ("ok") or the attempts are used up
\* ("failed").  While it is pending the server keeps att, the attempts made
\* so far, and wait, the backoff before the next attempt; once it has settled
\* only the outcome and the reported result val (a tuple) remain.
IdleActivity == [st |-> "idle", att |-> 0, wait |-> 0, val |-> <<>>]

\* an engine that schedules the activity again whatever its history holds
execute_activity_anew(a) == [st |-> "pending", att |-> 0, wait |-> 0, val |-> <<>>]

\* workflow.execute_activity(..., retry_policy=retry_policy) where a is what
\* the run's history holds for this call: the activity is scheduled when the
\* history does not hold it yet; when the coordinator replays its history
\* after a crash the call yields the activity as recorded
execute_activity(a) ==
    IF a.st = "idle"
    THEN [st |-> "pending", att |-> 0, wait |-> 0, val |-> <<>>]
    ELSE a

\* an attempt returns v
AttemptReturns(a, v) == [st |-> "ok", att |-> 0, wait |-> 0, val |-> v]

\* an attempt raises, times out or its worker dies: the server schedules the
\* next attempt unless this was the last one the policy allows
AttemptFails(a, policy) ==
    IF a.att + 1 >= policy.maximum_attempts
    THEN [st |-> "failed", att |-> 0, wait |-> 0, val |-> <<>>]
    ELSE [a EXCEPT !.att = a.att + 1, !.wait = RetryInterval(policy, a.att + 1)]

Settled(a) == a.st \in {"ok", "failed"}

InFlight(a) == a.st = "pending"

SingleActivities == {"download", "metadata", "thumbnail", "scene_detection",
                     "split", "master", "chapter_files"}

VARIABLES
    youtube_url,        \* TRUE iff the run was started with a URL
    opts,               \* ProcessingOptions
    video,              \* the source: its height, the chunks it splits into,
                        \* and whether it is in the store as the run starts
    pc,                 \* the await the coordinator is suspended at
    acts,               \* the activities dispatched one at a time, by name
    source_height,
    thumbnail_result,
    scene_result,
    warnings,
    target_resolutions,
    chunk_count,
    transcode_tasks,    \* the fan-out: one record per dispatched unit
    transcode_errors,
    playlist_tasks,
    variants,
    playlist_errors,
    master_result,
    chapter_files_result,
    result,             \* what run() returns
    store,              \* keys present in the object store
    resumed_from,       \* the coordinator state lost in the last crash
    scene_call,         \* a call of detect_scenes: its inputs and its return
    thumbnail_call,     \* a call of generate_thumbnail
    status_query,       \* a GET /status/{video_id} request on the router
    locking,            \* the task-locking service and its requests
    multipart,          \* the multipart-upload server and its requests
    sync,               \* the sync server and its upload requests
    drive,              \* the drive file service and its update sessions
    playlist_call,      \* a call of generate_hls_playlist
    master_call         \* a call of generate_master_playlist

vars == <<youtube_url, opts, video, pc, acts, source_height, thumbnail_result,
          scene_result, warnings, target_resolutions, chunk_count,
          transcode_tasks, transcode_errors, playlist_tasks, variants,
          playlist_errors, master_result, chapter_files_result, result, store,
          resumed_from, scene_call, thumbnail_call, status_query, locking,
          multipart, sync, drive, playlist_call, master_call>>

inputs == <<youtube_url, opts, video>>

\* the state of one pipeline run
pipeline == <<youtube_url, opts, video, pc, acts, source_height,
              thumbnail_result, scene_result, warnings, target_resolutions,
              chunk_count, transcode_tasks, transcode_errors, playlist_tasks,
              variants, playlist_errors, master_result, chapter_files_result,
              result, store, resumed_from>>

\* the state of the programs followed on their own, apart from a run
apart == <<scene_call, thumbnail_call, status_query, locking, multipart, sync,
          drive, playlist_call, master_call>>

beside_scene_call ==
    <<thumbnail_call, status_query, locking, multipart, sync,
      drive, playlist_call, master_call>>

beside_thumbnail_call ==
    <<scene_call, status_query, locking, multipart, sync,
      drive, playlist_call, master_call>>

beside_status_query ==
    <<scene_call, thumbnail_call, locking, multipart, sync,
      drive, playlist_call, master_call>>

beside_locking ==
    <<scene_call, thumbnail_call, status_query, multipart, sync,
      drive, playlist_call, master_call>>

beside_multipart ==
    <<scene_call, thumbnail_call, status_query, locking, sync,
      drive, playlist_call, master_call>>

beside_sync ==
    <<scene_call, thumbnail_call, status_query, locking, multipart,
      drive, playlist_call, master_call>>

beside_drive ==
    <<scene_call, thumbnail_call, status_query, locking, multipart,
      sync, playlist_call, master_call>>

beside_playlist_call ==
    <<scene_call, thumbnail_call, status_query, locking, multipart,
      sync, drive, master_call>>

beside_master_call ==
    <<scene_call, thumbnail_call, status_query, locking, multipart,
      sync, drive, playlist_call>>

\* none of them is in use
NotInUse == "not in use"

\* the program named which starts as value, the others are not in use
ApartInit(which, value) ==
    /\ scene_call = IF which = "scene_call" THEN value ELSE NotInUse
    /\ thumbnail_call = IF which = "thumbnail_call" THEN value ELSE NotInUse
    /\ status_query = IF which = "status_query" THEN value ELSE NotInUse
    /\ locking = IF which = "locking" THEN value ELSE NotInUse
    /\ multipart = IF which = "multipart" THEN value ELSE NotInUse
    /\ sync = IF which = "sync" THEN value ELSE NotInUse
    /\ drive = IF which = "drive" THEN value ELSE NotInUse
    /\ playlist_call = IF which = "playlist_call" THEN value ELSE NotInUse
    /\ master_call = IF which = "master_call" THEN value ELSE NotInUse

ApartNotInUse == ApartInit("none", NotInUse)

locals == <<source_height, thumbnail_result, scene_result, warnings,
            target_resolutions, chunk_count, transcode_errors, variants,
            playlist_errors, master_result, chapter_files_result>>

\* no coordinator crash so far
NoCrash == [pc |-> "none", locals |-> <<>>]

\* The inputs of a run: the URL (or none), the options, and the source video
\* as ffprobe and the splitter see it.  A run started without a URL is one
\* whose source has been put in the store; a run started with a URL finds the
\* source there or not.  Two families of runs are explored:
\*  - the transcode grid: no URL and no optional branch, any request list of
\*    at most MaxReq names, any video whose grid of chunks x target
\*    resolutions has at most MaxUnits work units;
\*  - the optional stages: any setting of URL, thumbnail and chapters, with
\*    resolution auto-detection, on a video of one chunk.
GridSize(o, v) ==
    v.chunks * Len(determine_target_resolutions(v.height, o.target_resolutions))

Inputs ==
    {in \in [url : BOOLEAN,
             opts : [target_resolutions : SeqsUpTo(RequestNames, MaxReq),
                     thumbnail_mode : ThumbnailModes,
                     chapters_enabled : BOOLEAN],
             video : [height : SourceHeights, chunks : 1..MaxUnits,
                      stored : BOOLEAN, flat : BOOLEAN]] :
        /\ ~in.url => in.video.stored
        /\ GridSize(in.opts, in.video) <= MaxUnits
        /\ GridSize(in.opts, in.video) = 0 => in.video.chunks = 1
        /\ \/ /\ ~in.url
              /\ in.opts.thumbnail_mode = "none"
              /\ ~in.opts.chapters_enabled
           \/ /\ in.opts.target_resolutions = <<>>
              /\ in.video.chunks = 1}

\* run() has been called and has not taken a step
NotStarted ==
    /\ pc = "start"
    /\ acts = [n \in SingleActivities |-> IdleActivity]
    /\ source_height = 0
    /\ thumbnail_result = None
    /\ scene_result = None
    /\ warnings = <<>>
    /\ target_resolutions = <<>>
    /\ chunk_count = 0
    /\ transcode_tasks = <<>>
    /\ transcode_errors = <<>>
    /\ playlist_tasks = <<>>
    /\ variants = <<>>
    /\ playlist_errors = <<>>
    /\ master_result = None
    /\ chapter_files_result = None
    /\ result = NoResult
    /\ store = (IF video.stored THEN {source_video(VideoId)} ELSE {})
               \cup (IF video.flat THEN {metadata_source(VideoId)} ELSE {})
    /\ resumed_from = NoCrash

Init ==
    /\ \E in \in Inputs :
           /\ youtube_url = in.url
           /\ opts = in.opts
           /\ video = in.video
    /\ NotStarted
    /\ ApartNotInUse

\* no run is followed: one with default options on a stored source stands
\* at its start
PipelineAtRest ==
    /\ youtube_url = FALSE
    /\ opts = DefaultProcessingOptions
    /\ video = [height |-> 320, chunks |-> 1, stored |-> TRUE, flat |-> TRUE]
    /\ NotStarted

\* ------------------------------------------------------------------ workers
\* One step is one attempt of one activity on a worker of its task queue.

\* download_youtube_video: uploads the download to source_video(video_id)
DownloadAttempt ==
    /\ InFlight(acts["download"])
    /\ \/ /\ acts' = [acts EXCEPT !["download"] = AttemptReturns(@, <<TRUE>>)]
          /\ store' = store \cup {source_video(VideoId)}
       \/ /\ acts' = [acts EXCEPT !["download"] = AttemptFails(@, retry_policy)]
          /\ store' = store
    /\ UNCHANGED <<inputs, pc, locals, transcode_tasks, playlist_tasks, result>>

\* extract_metadata: downloads metadata_source(video_id) and has ffprobe
\* report the height of its video stream; raises when the download fails
MetadataAttempt ==
    /\ InFlight(acts["metadata"])
    /\ \/ /\ metadata_source(VideoId) \in store
          /\ acts' = [acts EXCEPT !["metadata"] = AttemptReturns(@, <<video.height>>)]
       \/ acts' = [acts EXCEPT !["metadata"] = AttemptFails(@, retry_policy)]
    /\ UNCHANGED <<inputs, pc, locals, transcode_tasks, playlist_tasks, result, store>>

\* generate_thumbnail: returns success=True after the upload, success=False
\* when anything raised inside it; the attempt itself fails only from outside
\* (timeout, worker crash)
ThumbnailAttempt ==
    /\ InFlight(acts["thumbnail"])
    /\ \/ /\ source_video(VideoId) \in store
          /\ acts' = [acts EXCEPT !["thumbnail"] = AttemptReturns(@, <<TRUE>>)]
          /\ store' = store \cup {thumbnail_path(VideoId)}
       \/ /\ acts' = [acts EXCEPT !["thumbnail"] = AttemptReturns(@, <<FALSE>>)]
          /\ store' = store
       \/ /\ acts' = [acts EXCEPT !["thumbnail"] = AttemptFails(@, retry_policy)]
          /\ store' = store
    /\ UNCHANGED <<inputs, pc, locals, transcode_tasks, playlist_tasks, result>>

\* detect_scenes: writes nothing; success=False when anything raised inside it
SceneDetectionAttempt ==
    /\ InFlight(acts["scene_detection"])
    /\ \/ \E success \in BOOLEAN :
              /\ success => source_video(VideoId) \in store
              /\ acts' = [acts EXCEPT !["scene_detection"] = AttemptReturns(@, <<success>>)]
       \/ acts' = [acts EXCEPT !["scene_detection"] = AttemptFails(@, retry_policy)]
    /\ UNCHANGED <<inputs, pc, locals, transcode_tasks, playlist_tasks, result, store>>

\* keys split_video uploads for n chunks
SplitKeys(n) == {source_chunk(VideoId, i) : i \in 0..(n - 1)}
                \cup {source_manifest(VideoId)}

\* a splitter that numbers its chunks from one
ChunksFromOne(n) == [i \in 1..n |-> [index |-> i, key |-> source_chunk(VideoId, i)]]

\* split_result["chunks"]: enumerate() over the sorted chunk files
Chunks(n) == [i \in 1..n |-> [index |-> i - 1, key |-> source_chunk(VideoId, i - 1)]]

\* split_video: chunk idx of the sorted chunk files goes to source_chunk(idx),
\* then the manifest; the result holds chunk_count = len(chunks) and chunks
SplitAttempt ==
    /\ InFlight(acts["split"])
    /\ \/ /\ source_video(VideoId) \in store
          /\ acts' = [acts EXCEPT !["split"] = AttemptReturns(@,
                        <<Len(Chunks(video.chunks)), Chunks(video.chunks)>>)]
          /\ store' = store \cup SplitKeys(video.chunks)
       \/ /\ acts' = [acts EXCEPT !["split"] = AttemptFails(@, retry_policy)]
          /\ store' = store
    /\ UNCHANGED <<inputs, pc, locals, transcode_tasks, playlist_tasks, result>>

\* a transcoder that names its segment after the next free slot of the store
TranscodeOutputKeyNextFree(video_id, chunk_index, resolution) ==
    output_segment(video_id, resolution, Cardinality(store))

\* the key transcode_chunk uploads its segment to
TranscodeOutputKey(video_id, chunk_index, resolution) ==
    output_segment(video_id, resolution, chunk_index)

\* the dict transcode_chunk returns
TranscodeResult(video_id, chunk_index, resolution) ==
    <<chunk_index, resolution,
      TranscodeOutputKey(video_id, chunk_index, resolution), TRUE>>

\* transcode_chunk for transcode_tasks[k]: download the source chunk, ffmpeg,
\* upload the segment, return.  The attempt can fail before the upload (a
\* raise) or after it (timeout or worker crash before the result is recorded).
TranscodeAttempt(k) ==
    LET t == transcode_tasks[k]
        key == TranscodeOutputKey(VideoId, t.chunk_index, t.resolution)
    IN  /\ InFlight(t.task)
        /\ \/ /\ source_chunk(VideoId, t.chunk_index) \in store
              /\ t.resolution \in VALID_RESOLUTIONS
              /\ store' = store \cup {key}
              /\ \/ transcode_tasks' = [transcode_tasks EXCEPT
                        ![k].task = AttemptReturns(@,
                            TranscodeResult(VideoId, t.chunk_index, t.resolution))]
                 \/ transcode_tasks' = [transcode_tasks EXCEPT
                        ![k].task = AttemptFails(@, retry_policy)]
           \/ /\ store' = store
              /\ transcode_tasks' = [transcode_tasks EXCEPT
                     ![k].task = AttemptFails(@, retry_policy)]
        /\ UNCHANGED <<inputs, pc, acts, locals, playlist_tasks, result>>

HLS_BANDWIDTH == [r \in VALID_RESOLUTIONS |->
    CASE r = "320p" -> 800000
      [] r = "480p" -> 1400000
      [] r = "720p" -> 2800000
      [] r = "1080p" -> 5000000]

\* segments generate_hls_playlist finds missing
MissingSegments(resolution, n) ==
    {idx \in 0..(n - 1) : output_segment(VideoId, resolution, idx) \notin store}

\* what generate_hls_playlist returns
VariantOf(resolution, n) ==
    [resolution |-> resolution,
     playlist_key |-> variant_playlist(VideoId, resolution),
     segment_count |-> n,
     bandwidth |-> HLS_BANDWIDTH[resolution]]

\* the segment lines of the playlist generate_hls_playlist writes
PlaylistSegments(n) == [i \in 1..n |-> "segments/seg_" \o Pad4(i - 1) \o ".ts"]

\* generate_hls_playlist for playlist_tasks[j]: raises when a segment is
\* missing, else uploads the playlist (the upload can fail); val is the
\* returned dict and the segment lines of the uploaded playlist
PlaylistAttempt(j) ==
    LET t == playlist_tasks[j]
    IN  /\ InFlight(t.task)
        /\ \/ /\ MissingSegments(t.resolution, chunk_count) = {}
              /\ store' = store \cup {variant_playlist(VideoId, t.resolution)}
              /\ playlist_tasks' = [playlist_tasks EXCEPT
                     ![j].task = AttemptReturns(@,
                         <<VariantOf(t.resolution, chunk_count),
                           PlaylistSegments(chunk_count)>>)]
           \/ /\ store' = store
              /\ playlist_tasks' = [playlist_tasks EXCEPT
                     ![j].task = AttemptFails(@, retry_policy)]
        /\ UNCHANGED <<inputs, pc, acts, locals, transcode_tasks, result>>

\* a master playlist that lists the variants in the order they were given
UnsortedEntries(vs) ==
    [i \in 1..Len(vs) |->
        [bandwidth |-> vs[i].bandwidth,
         name |-> vs[i].resolution,
         uri |-> vs[i].resolution \o "/playlist.m3u8"]]

\* sorted(variants, key=lambda v: v.get("bandwidth", 0), reverse=True):
\* highest bandwidth first, variants of equal bandwidth in input order
RECURSIVE sorted_variants(_)
sorted_variants(vs) ==
    IF vs = <<>> THEN <<>>
    ELSE LET front == sorted_variants(SubSeq(vs, 1, Len(vs) - 1))
             v == vs[Len(vs)]
             k == Cardinality({i \in DOMAIN front : front[i].bandwidth >= v.bandwidth})
         IN  SubSeq(front, 1, k) \o <<v>> \o SubSeq(front, k + 1, Len(front))

\* the entries of the master playlist: the EXT-X-STREAM-INF line of a
\* variant and, under it, the relative path of its playlist
MasterEntries(vs) ==
    [i \in 1..Len(vs) |->
        [bandwidth |-> sorted_variants(vs)[i].bandwidth,
         name |-> sorted_variants(vs)[i].resolution,
         uri |-> sorted_variants(vs)[i].resolution \o "/playlist.m3u8"]]

\* generate_master_playlist; val is the key of the master playlist and the
\* entries written into it
MasterAttempt ==
    /\ InFlight(acts["master"])
    /\ \/ /\ acts' = [acts EXCEPT !["master"] = AttemptReturns(@,
                        <<master_playlist(VideoId), MasterEntries(variants)>>)]
          /\ store' = store \cup {master_playlist(VideoId)}
       \/ /\ acts' = [acts EXCEPT !["master"] = AttemptFails(@, retry_policy)]
          /\ store' = store
    /\ UNCHANGED <<inputs, pc, locals, transcode_tasks, playlist_tasks, result>>

ChapterKeys == {chapters_json(VideoId), chapters_vtt(VideoId), chapters_hls(VideoId)}

\* generate_chapter_files: success=False when anything raised inside it;
\* the value upload_fileobj returns is not looked at, so each of the three
\* files is stored or not
ChapterFilesAttempt ==
    /\ InFlight(acts["chapter_files"])
    /\ \/ /\ acts' = [acts EXCEPT !["chapter_files"] = AttemptReturns(@, <<TRUE>>)]
          /\ \E uploaded \in SUBSET ChapterKeys : store' = store \cup uploaded
       \/ /\ acts' = [acts EXCEPT !["chapter_files"] = AttemptReturns(@, <<FALSE>>)]
          /\ store' = store
       \/ /\ acts' = [acts EXCEPT !["chapter_files"] = AttemptFails(@, retry_policy)]
          /\ store' = store
    /\ UNCHANGED <<inputs, pc, locals, transcode_tasks, playlist_tasks, result>>

\* -------------------------------------------------------------- coordinator
\* VideoWorkflow.run, one step per resumption: from the completion of the
\* await it is suspended at up to the next await or the return.

\* an early "success": False return of run()
\* the "error" of a failure return: str(e.cause) of the ActivityError, or the
\* message the transcode stage writes itself
FailureCause(stage) ==
    IF stage = "transcode" THEN "No resolution fully transcoded"
    ELSE "cause of the " \o stage \o " failure"

FailureResult(stage, errors, thumbnail, warns) ==
    [success |-> FALSE, stage |-> stage, error |-> FailureCause(stage),
     variants |-> <<>>,
     master_playlist |-> None, errors |-> errors, warnings |-> warns,
     thumbnail |-> thumbnail, chapters |-> None]

\* a coordinator that downloads in every run
StartAlwaysDownloads ==
    /\ pc = "start"
    /\ acts' = [acts EXCEPT !["download"] = execute_activity(@)]
    /\ pc' = "download"
    /\ UNCHANGED <<inputs, locals, transcode_tasks, playlist_tasks, result, store>>

\* STAGE 1: the download is dispatched only when a URL was given
Start ==
    /\ pc = "start"
    /\ IF youtube_url
       THEN /\ acts' = [acts EXCEPT !["download"] = execute_activity(@)]
            /\ pc' = "download"
       ELSE /\ acts' = [acts EXCEPT !["metadata"] = execute_activity(@)]
            /\ pc' = "metadata"
    /\ UNCHANGED <<inputs, locals, transcode_tasks, playlist_tasks, result, store>>

\* a coordinator that probes the metadata whatever became of the download
AfterDownloadIgnoresFailure ==
    /\ pc = "download"
    /\ Settled(acts["download"])
    /\ acts' = [acts EXCEPT !["metadata"] = execute_activity(@)]
    /\ pc' = "metadata"
    /\ UNCHANGED <<inputs, locals, transcode_tasks, playlist_tasks, result, store>>

\* STAGE 1 result and STAGE 2 dispatch
AfterDownload ==
    /\ pc = "download"
    /\ Settled(acts["download"])
    /\ IF acts["download"].st = "ok"
       THEN /\ acts' = [acts EXCEPT !["metadata"] = execute_activity(@)]
            /\ pc' = "metadata"
            /\ result' = result
       ELSE /\ result' = FailureResult("download", <<>>, None, <<>>)
            /\ pc' = "done"
            /\ acts' = acts
    /\ UNCHANGED <<inputs, locals, transcode_tasks, playlist_tasks, store>>

\* STAGE 4 and the dispatch of STAGE 5, entered with the branch results
\* th, sc, w and the activities a: no target resolution returns success with
\* no variants, otherwise split_video is dispatched
\* a coordinator that splits whatever the policy returned
DetermineAndSplitAlways(height, a, th, sc, w) ==
    /\ target_resolutions' =
           determine_target_resolutions(height, opts.target_resolutions)
    /\ acts' = [a EXCEPT !["split"] = execute_activity(@)]
    /\ pc' = "split"
    /\ result' = result

DetermineAndSplit(height, a, th, sc, w) ==
    LET targets == determine_target_resolutions(height, opts.target_resolutions)
    IN  /\ target_resolutions' = targets
        /\ IF targets = <<>>
           THEN /\ result' = [success |-> TRUE, stage |-> None, error |-> None,
                              variants |-> <<>>, master_playlist |-> None,
                              errors |-> <<>>, warnings |-> w,
                              thumbnail |-> th, chapters |-> sc]
                /\ pc' = "done"
                /\ acts' = a
           ELSE /\ acts' = [a EXCEPT !["split"] = execute_activity(@)]
                /\ pc' = "split"
                /\ result' = result

\* STAGE 2 result and STAGE 3 dispatch: thumbnail when the mode is not
\* "none", scene detection when chapters are enabled
AfterMetadata ==
    /\ pc = "metadata"
    /\ Settled(acts["metadata"])
    /\ IF acts["metadata"].st = "failed"
       THEN /\ result' = FailureResult("metadata", <<>>, None, <<>>)
            /\ pc' = "done"
            /\ UNCHANGED <<acts, source_height, target_resolutions>>
       ELSE LET height == acts["metadata"].val[1]
                a1 == IF opts.thumbnail_mode # "none"
                      THEN [acts EXCEPT !["thumbnail"] = execute_activity(@)]
                      ELSE acts
                a2 == IF opts.chapters_enabled
                      THEN [a1 EXCEPT !["scene_detection"] = execute_activity(@)]
                      ELSE a1
            IN  /\ source_height' = height
                /\ IF opts.thumbnail_mode # "none" \/ opts.chapters_enabled
                   THEN /\ acts' = a2
                        /\ pc' = "branch"
                        /\ UNCHANGED <<target_resolutions, result>>
                   ELSE DetermineAndSplit(height, a2, thumbnail_result,
                                          scene_result, warnings)
    /\ UNCHANGED <<inputs, thumbnail_result, scene_result, warnings, chunk_count,
                   transcode_errors, variants, playlist_errors, master_result,
                   chapter_files_result, transcode_tasks, playlist_tasks, store>>

\* the value a gathered optional activity contributes: its result, or None
\* when gather returned an exception for it
BranchResult(a) ==
    IF a.st = "ok" THEN (IF a.val[1] THEN "ok" ELSE "unsuccessful") ELSE None

\* a loop that warns about exceptions only
BranchWarningExceptionsOnly(a, name) ==
    IF a.st = "failed" THEN <<name>> ELSE <<>>

\* the warning a gathered optional activity contributes
BranchWarning(a, name) ==
    IF a.st = "failed" \/ (a.st = "ok" /\ ~a.val[1]) THEN <<name>> ELSE <<>>

\* asyncio.gather(*parallel_tasks, return_exceptions=True) and the loop over
\* its results, then STAGE 4
AfterBranch ==
    /\ pc = "branch"
    /\ \A n \in {"thumbnail", "scene_detection"} : ~InFlight(acts[n])
    /\ LET th == BranchResult(acts["thumbnail"])
           sc == BranchResult(acts["scene_detection"])
           w == BranchWarning(acts["thumbnail"], "thumbnail")
                \o BranchWarning(acts["scene_detection"], "scene_detection")
       IN  /\ thumbnail_result' = th
           /\ scene_result' = sc
           /\ warnings' = warnings \o w
           /\ DetermineAndSplit(source_height, acts, th, sc, warnings \o w)
    /\ UNCHANGED <<inputs, source_height, chunk_count, transcode_errors, variants,
                   playlist_errors, master_result, chapter_files_result,
                   transcode_tasks, playlist_tasks, store>>

\* what the history holds for the k-th activity of a fan-out
Recorded(tasks, k) == IF k \in DOMAIN tasks THEN tasks[k].task ELSE IdleActivity

\* for resolution in target_resolutions: for chunk in chunks: one
\* execute_activity(transcode_chunk, ...) each
FanOut(targets, chunks) ==
    [k \in 1..(Len(targets) * Len(chunks)) |->
        [task |-> execute_activity(Recorded(transcode_tasks, k)),
         resolution |-> targets[((k - 1) \div Len(chunks)) + 1],
         chunk_index |-> chunks[((k - 1) % Len(chunks)) + 1].index]]

\* a coordinator that goes on to the fan-out with no chunks when the split
\* failed
AfterSplitFallsThrough ==
    /\ pc = "split"
    /\ Settled(acts["split"])
    /\ LET n == IF acts["split"].st = "ok" THEN acts["split"].val[1] ELSE 0
       IN  /\ chunk_count' = n
           /\ transcode_tasks' = FanOut(target_resolutions, Chunks(n))
    /\ pc' = "transcode"
    /\ UNCHANGED <<inputs, acts, source_height, thumbnail_result, scene_result,
                   warnings, target_resolutions, transcode_errors, variants,
                   playlist_errors, master_result, chapter_files_result,
                   playlist_tasks, result, store>>

\* STAGE 5 result and STAGE 6 dispatch
AfterSplit ==
    /\ pc = "split"
    /\ Settled(acts["split"])
    /\ IF acts["split"].st = "failed"
       THEN /\ result' = FailureResult("split", <<>>, thumbnail_result, warnings)
            /\ pc' = "done"
            /\ UNCHANGED <<chunk_count, transcode_tasks>>
       ELSE /\ chunk_count' = acts["split"].val[1]
            /\ transcode_tasks' = FanOut(target_resolutions,
                                        acts["split"].val[2])
            /\ pc' = "transcode"
            /\ result' = result
    /\ UNCHANGED <<inputs, acts, source_height, thumbnail_result, scene_result,
                   warnings, target_resolutions, transcode_errors, variants,
                   playlist_errors, master_result, chapter_files_result,
                   playlist_tasks, store>>

\* a result loop that names the i-th failure after the i-th task
TranscodeErrorsByPosition(tasks) ==
    LET failed == SelectSeq(tasks, LAMBDA t : t.task.st = "failed")
    IN  [i \in 1..Len(failed) |->
            [resolution |-> tasks[i].resolution,
             chunk_index |-> tasks[i].chunk_index]]

\* the error entries the result loop appends, in task order; a playlist
\* error has no chunk_index, written -1 here
TranscodeErrors(tasks) ==
    LET failed == SelectSeq(tasks, LAMBDA t : t.task.st = "failed")
    IN  [i \in 1..Len(failed) |->
            [resolution |-> failed[i].resolution,
             chunk_index |-> failed[i].chunk_index]]

\* the keys of {res: 0 for res in target_resolutions}, in insertion order
RECURSIVE DictKeys(_)
DictKeys(s) ==
    IF s = <<>> THEN <<>>
    ELSE LET front == DictKeys(SubSeq(s, 1, Len(s) - 1))
         IN  IF s[Len(s)] \in Range(front) THEN front ELSE Append(front, s[Len(s)])

\* successful_by_resolution[res] after the result loop
SuccessfulByResolution(tasks, res) ==
    Cardinality({k \in DOMAIN tasks :
                    tasks[k].resolution = res /\ tasks[k].task.st = "ok"})

\* [res for res, count in successful_by_resolution.items() if count == chunk_count]
CompleteResolutions(tasks, targets, n) ==
    SelectSeq(DictKeys(targets), LAMBDA res : SuccessfulByResolution(tasks, res) = n)

PlaylistFanOut(targets) ==
    [j \in 1..Len(targets) |->
        [task |-> execute_activity(Recorded(playlist_tasks, j)),
         resolution |-> targets[j]]]

\* a gather that returns as soon as one unit has failed
TranscodeGatheredFirstException ==
    \/ \A k \in DOMAIN transcode_tasks : Settled(transcode_tasks[k].task)
    \/ \E k \in DOMAIN transcode_tasks : transcode_tasks[k].task.st = "failed"

\* asyncio.gather(*transcode tasks, return_exceptions=True) has returned
TranscodeGathered ==
    \A k \in DOMAIN transcode_tasks : Settled(transcode_tasks[k].task)

\* the await of the gather, the result loop, the completeness check (made
\* only when a unit failed) and STAGE 7 dispatch
AfterTranscode ==
    /\ pc = "transcode"
    /\ TranscodeGathered
    /\ LET errors == TranscodeErrors(transcode_tasks)
           complete == CompleteResolutions(transcode_tasks, target_resolutions,
                                           chunk_count)
           targets == IF errors # <<>> THEN complete ELSE target_resolutions
       IN  /\ transcode_errors' = errors
           /\ IF errors # <<>> /\ complete = <<>>
              THEN /\ result' = FailureResult("transcode", errors,
                                              thumbnail_result, warnings)
                   /\ pc' = "done"
                   /\ UNCHANGED <<target_resolutions, playlist_tasks>>
              ELSE /\ target_resolutions' = targets
                   /\ playlist_tasks' = PlaylistFanOut(targets)
                   /\ pc' = "playlist"
                   /\ result' = result
    /\ UNCHANGED <<inputs, acts, source_height, thumbnail_result, scene_result,
                   warnings, chunk_count, variants, playlist_errors,
                   master_result, chapter_files_result, transcode_tasks, store>>

\* the dict run() returns at the end
FinalResult(vs, master, errors, warns) ==
    [success |-> Len(vs) > 0,
     stage |-> None,
     error |-> None,
     variants |-> [i \in 1..Len(vs) |-> vs[i].resolution],
     master_playlist |-> IF vs # <<>> THEN master ELSE None,
     errors |-> errors,
     warnings |-> warns,
     thumbnail |-> IF thumbnail_result = "ok" THEN "ok" ELSE None,
     chapters |-> IF scene_result = "ok" THEN "ok" ELSE None,
     chapter_files |-> None]

\* chapter_files_result.get("json_key"), .get("vtt_key") of the result
ReportedChapterKeys(a) ==
    IF a.st = "ok" /\ a.val[1]
    THEN <<chapters_json(VideoId), chapters_vtt(VideoId)>>
    ELSE None

\* STAGE 8 dispatch, or the return when there are no chapters to write
\* a coordinator that generates chapter files in every run
ChaptersAlways(a, vs, master, perrors) ==
    /\ acts' = [a EXCEPT !["chapter_files"] = execute_activity(@)]
    /\ pc' = "chapters"
    /\ result' = result

ChaptersOrFinish(a, vs, master, perrors) ==
    IF scene_result = "ok"
    THEN /\ acts' = [a EXCEPT !["chapter_files"] = execute_activity(@)]
         /\ pc' = "chapters"
         /\ result' = result
    ELSE /\ acts' = a
         /\ pc' = "done"
         /\ result' = FinalResult(vs, master, transcode_errors \o perrors,
                                  warnings)

\* asyncio.gather(*playlist tasks, return_exceptions=True), the result loop
\* and the master playlist dispatch
AfterPlaylists ==
    /\ pc = "playlist"
    /\ \A j \in DOMAIN playlist_tasks : Settled(playlist_tasks[j].task)
    /\ LET done == SelectSeq(playlist_tasks, LAMBDA t : t.task.st = "ok")
           failed == SelectSeq(playlist_tasks, LAMBDA t : t.task.st = "failed")
           vs == [i \in 1..Len(done) |-> done[i].task.val[1]]
           perrors == [i \in 1..Len(failed) |->
                          [resolution |-> failed[i].resolution, chunk_index |-> -1]]
       IN  /\ variants' = vs
           /\ playlist_errors' = perrors
           /\ IF vs # <<>>
              THEN /\ acts' = [acts EXCEPT !["master"] = execute_activity(@)]
                   /\ pc' = "master"
                   /\ result' = result
              ELSE ChaptersOrFinish(acts, vs, None, perrors)
    /\ UNCHANGED <<inputs, source_height, thumbnail_result, scene_result, warnings,
                   target_resolutions, chunk_count, transcode_errors, master_result,
                   chapter_files_result, transcode_tasks, playlist_tasks, store>>

AfterMaster ==
    /\ pc = "master"
    /\ Settled(acts["master"])
    /\ LET master == IF acts["master"].st = "ok"
                     THEN acts["master"].val[1] ELSE None
           perrors == IF acts["master"].st = "ok" THEN playlist_errors
                      ELSE Append(playlist_errors,
                                  [resolution |-> "master", chunk_index |-> -1])
       IN  /\ master_result' = master
           /\ playlist_errors' = perrors
           /\ ChaptersOrFinish(acts, variants, master, perrors)
    /\ UNCHANGED <<inputs, source_height, thumbnail_result, scene_result, warnings,
                   target_resolutions, chunk_count, transcode_errors, variants,
                   chapter_files_result, transcode_tasks, playlist_tasks, store>>

\* STAGE 8 result and the return
AfterChapters ==
    /\ pc = "chapters"
    /\ Settled(acts["chapter_files"])
    /\ LET warns == IF acts["chapter_files"].st = "failed"
                    THEN Append(warnings, "chapter_files") ELSE warnings
       IN  /\ warnings' = warns
           /\ chapter_files_result' = BranchResult(acts["chapter_files"])
           /\ result' = [FinalResult(variants, master_result,
                                     transcode_errors \o playlist_errors, warns)
                             EXCEPT !.chapter_files =
                                 ReportedChapterKeys(acts["chapter_files"])]
    /\ pc' = "done"
    /\ UNCHANGED <<inputs, acts, source_height, thumbnail_result, scene_result,
                   target_resolutions, chunk_count, transcode_errors, variants,
                   playlist_errors, master_result, transcode_tasks,
                   playlist_tasks, store>>

Coordinator ==
    \/ Start
    \/ AfterDownload
    \/ AfterMetadata
    \/ AfterBranch
    \/ AfterSplit
    \/ AfterTranscode
    \/ AfterPlaylists
    \/ AfterMaster
    \/ AfterChapters

Workers ==
    \/ DownloadAttempt
    \/ MetadataAttempt
    \/ ThumbnailAttempt
    \/ SceneDetectionAttempt
    \/ SplitAttempt
    \/ \E k \in DOMAIN transcode_tasks : TranscodeAttempt(k)
    \/ \E j \in DOMAIN playlist_tasks : PlaylistAttempt(j)
    \/ MasterAttempt
    \/ ChapterFilesAttempt

Next == (Coordinator \/ Workers) /\ UNCHANGED <<resumed_from, apart>>

Spec == Init /\ [][Next]_vars

\* ------------------------------------------------------ coordinator crashes
\* The workflow worker dies while run() is suspended at an await: what run()
\* held in memory is lost and the runtime starts run() again from the top
\* against the recorded history; activities, their results and the object
\* store are untouched.
CoordinatorCrash ==
    /\ pc \notin {"start", "done"}
    /\ resumed_from' = [pc |-> pc, locals |-> locals]
    /\ pc' = "start"
    /\ source_height' = 0
    /\ thumbnail_result' = None
    /\ scene_result' = None
    /\ warnings' = <<>>
    /\ target_resolutions' = <<>>
    /\ chunk_count' = 0
    /\ transcode_errors' = <<>>
    /\ variants' = <<>>
    /\ playlist_errors' = <<>>
    /\ master_result' = None
    /\ chapter_files_result' = None
    /\ UNCHANGED <<inputs, acts, transcode_tasks, playlist_tasks, result, store,
                   apart>>

InitCrash == Init /\ GridSize(opts, video) <= MaxCrashUnits

NextCrash == Next \/ CoordinatorCrash

SpecCrash == InitCrash /\ [][NextCrash]_vars

\* ------------------------------------------------- the resolution policy
\* The policy on its own: runs that have probed a source of any height in
\* PolicyHeights and were started with any options dict in PolicyOptionDicts
\* (no URL, no optional branch) stand at the await of extract_metadata, which
\* has returned; their one step is the coordinator's, which applies
\* determine_target_resolutions and either returns or dispatches the split.
InitPolicy ==
    /\ \E d \in PolicyOptionDicts, h \in PolicyHeights :
           /\ youtube_url = FALSE
           /\ opts = from_dict(d)
           /\ video = [height |-> h, chunks |-> 1, stored |-> TRUE,
                       flat |-> TRUE]
           /\ acts = [n \in SingleActivities |->
                         IF n = "metadata"
                         THEN AttemptReturns(execute_activity(IdleActivity), <<h>>)
                         ELSE IdleActivity]
    /\ pc = "metadata"
    /\ source_height = 0
    /\ thumbnail_result = None
    /\ scene_result = None
    /\ warnings = <<>>
    /\ target_resolutions = <<>>
    /\ chunk_count = 0
    /\ transcode_tasks = <<>>
    /\ transcode_errors = <<>>
    /\ playlist_tasks = <<>>
    /\ variants = <<>>
    /\ playlist_errors = <<>>
    /\ master_result = None
    /\ chapter_files_result = None
    /\ result = NoResult
    /\ store = {source_video(VideoId), metadata_source(VideoId)}
    /\ resumed_from = NoCrash
    /\ ApartNotInUse

NextPolicy == AfterMetadata /\ UNCHANGED <<resumed_from, apart>>

SpecPolicy == InitPolicy /\ [][NextPolicy]_vars

\* ------------------------------------------------------------- vocabulary
Units == DOMAIN transcode_tasks

\* the resolutions the fan-out dispatched units for
UnitResolutions == {transcode_tasks[k].resolution : k \in Units}

\* the units dispatched for chunk i at resolution R
UnitsOf(R, i) ==
    {k \in Units : /\ transcode_tasks[k].resolution = R
                   /\ transcode_tasks[k].chunk_index = i}

ChunkIndexes == 0..(chunk_count - 1)

\* the coordinator has gone past the gather of the fan-out
FanOutDecided == transcode_tasks # <<>> /\ pc # "transcode"

\* every work unit (chunk i, R) succeeded
AllUnitsSucceeded(R) ==
    \A i \in ChunkIndexes :
        /\ UnitsOf(R, i) # {}
        /\ \A k \in UnitsOf(R, i) : transcode_tasks[k].task.st = "ok"

\* every chunk has been transcoded at R by some unit
AllChunksTranscoded(R) ==
    \A i \in ChunkIndexes :
        \E k \in UnitsOf(R, i) : transcode_tasks[k].task.st = "ok"

FailedUnits == {k \in Units : transcode_tasks[k].task.st = "failed"}

PlaylistDispatched(R) ==
    \E j \in DOMAIN playlist_tasks : playlist_tasks[j].resolution = R

\* the errors list of the result names every failed unit, one entry each
ErrorsNameFailedUnits ==
    /\ \A k \in FailedUnits :
           [resolution |-> transcode_tasks[k].resolution,
            chunk_index |-> transcode_tasks[k].chunk_index] \in Range(result.errors)
    /\ Len(SelectSeq(result.errors, LAMBDA e : e.chunk_index >= 0))
           = Cardinality(FailedUnits)

\* ------------------------------------------------------------------ claims

\* C1: once the fan-out has settled, a variant playlist is generated for a
\* target resolution R exactly when every work unit (chunk i, R) succeeded,
\* and a resolution in the result's variants has no failed unit.
C1_PlaylistIffAllUnitsSucceeded ==
    FanOutDecided =>
        \A R \in UnitResolutions :
            /\ PlaylistDispatched(R) <=> AllUnitsSucceeded(R)
            /\ (pc = "done" /\ R \in Range(result.variants)) => AllUnitsSucceeded(R)

\* C2: if at least one resolution has all of its chunks transcoded and the
\* playlist activities succeed, the run ends with success=true, its variants
\* are exactly the fully transcoded resolutions and its errors list has one
\* entry for every failed work unit.
C2_PartialSuccess ==
    ( /\ pc = "done"
      /\ transcode_tasks # <<>>
      /\ \E R \in UnitResolutions : AllChunksTranscoded(R)
      /\ \A j \in DOMAIN playlist_tasks : playlist_tasks[j].task.st = "ok"
      /\ acts["master"].st # "failed" )
    => /\ result.success
       /\ Range(result.variants) = {R \in UnitResolutions : AllChunksTranscoded(R)}
       /\ ErrorsNameFailedUnits

\* C3: if no target resolution has all of its chunks transcoded when the
\* fan-out settles, no variant playlist or master playlist activity is
\* dispatched and the run ends with success=false at stage "transcode" with
\* an error entry for every failed unit.
C3_NothingCompleteFails ==
    ( /\ FanOutDecided
      /\ \A R \in UnitResolutions : ~AllChunksTranscoded(R) )
    => /\ playlist_tasks = <<>>
       /\ acts["master"].st = "idle"
       /\ pc = "done"
       /\ ~result.success
       /\ result.stage = "transcode"
       /\ ErrorsNameFailedUnits

\* C4: when metadata probing or splitting has failed terminally, the run goes
\* straight to a failed result naming that stage with no variants, and no
\* transcode, variant-playlist, master-playlist or chapter-file activity is
\* dispatched, so no playlist is published.
C4_FatalStageFailure ==
    \A stage \in {"metadata", "split"} :
        acts[stage].st = "failed" =>
            /\ pc \in {stage, "done"}
            /\ transcode_tasks = <<>>
            /\ playlist_tasks = <<>>
            /\ acts["master"].st = "idle"
            /\ acts["chapter_files"].st = "idle"
            /\ \A R \in VALID_RESOLUTIONS : variant_playlist(VideoId, R) \notin store
            /\ master_playlist(VideoId) \notin store
            /\ pc = "done" => /\ ~result.success
                              /\ result.stage = stage
                              /\ result.variants = <<>>
                              /\ result.master_playlist = None

\* a run that ended because split_video failed after its retries
C4_Witness ==
    /\ pc = "done"
    /\ acts["split"].st = "failed"
    /\ result.stage = "split"

\* C5: whenever at least one target resolution is complete after the fan-out
\* settles, the run ends with success=true and a non-null master playlist key,
\* and its variants are exactly the complete resolutions.
C5_CompleteMeansPublished ==
    ( /\ pc = "done"
      /\ transcode_tasks # <<>>
      /\ \E R \in UnitResolutions : AllChunksTranscoded(R) )
    => /\ result.success
       /\ result.master_playlist # None
       /\ Range(result.variants) = {R \in UnitResolutions : AllChunksTranscoded(R)}

\* C6: while any transcode unit is still in flight the coordinator stays at the
\* gather and has decided nothing (no error list, no playlist dispatched, no
\* result); and a step in which one unit fails terminally changes no sibling.
C6_NothingDecidedWhileInFlight ==
    (\E k \in Units : InFlight(transcode_tasks[k].task)) =>
        /\ pc = "transcode"
        /\ transcode_errors = <<>>
        /\ playlist_tasks = <<>>
        /\ result = NoResult

C6_FailureLeavesSiblings ==
    \A k \in Units :
        ( /\ InFlight(transcode_tasks[k].task)
          /\ transcode_tasks'[k].task.st = "failed" )
        => \A j \in Units \ {k} : transcode_tasks'[j] = transcode_tasks[j]

C6_DecidesAfterAllSettled ==
    [] C6_NothingDecidedWhileInFlight /\ [][C6_FailureLeavesSiblings]_vars

\* the coordinator went on to the playlists after a unit of one resolution
\* had failed terminally and a unit of another had succeeded
C6_Witness ==
    /\ pc = "playlist"
    /\ \E k \in Units : \E j \in Units :
           /\ transcode_tasks[k].task.st = "failed"
           /\ transcode_tasks[j].task.st = "ok"
           /\ transcode_tasks[j].resolution # transcode_tasks[k].resolution

\* C7: the fan-out dispatches exactly one unit for each pair of a manifest
\* chunk and a target resolution, so the number of units is chunk_count times
\* the number of distinct target resolutions.
C7_OneUnitPerPair ==
    transcode_tasks # <<>> =>
        /\ UnitResolutions = Range(determine_target_resolutions(
                                       source_height, opts.target_resolutions))
        /\ \A R \in UnitResolutions : \A i \in ChunkIndexes :
               Cardinality(UnitsOf(R, i)) = 1
        /\ Len(transcode_tasks) = chunk_count * Cardinality(UnitResolutions)

\* the activities of the run that are in flight
RunningActivities ==
    {[kind |-> "single", name |-> n, index |-> 0] :
         n \in {m \in SingleActivities : InFlight(acts[m])}}
    \cup {[kind |-> "transcode", name |-> "transcode_chunk", index |-> k] :
              k \in {u \in Units : InFlight(transcode_tasks[u].task)}}
    \cup {[kind |-> "playlist", name |-> "generate_hls_playlist", index |-> j] :
              j \in {q \in DOMAIN playlist_tasks : InFlight(playlist_tasks[q].task)}}

\* the keys an activity uploads to
WriteKeys(x) ==
    CASE x.kind = "transcode" ->
             {TranscodeOutputKey(VideoId, transcode_tasks[x.index].chunk_index,
                                 transcode_tasks[x.index].resolution)}
      [] x.kind = "playlist" ->
             {variant_playlist(VideoId, playlist_tasks[x.index].resolution)}
      [] x.name = "download" -> {source_video(VideoId)}
      [] x.name = "thumbnail" -> {thumbnail_path(VideoId)}
      [] x.name = "split" -> SplitKeys(video.chunks)
      [] x.name = "master" -> {master_playlist(VideoId)}
      [] x.name = "chapter_files" -> ChapterKeys
      [] OTHER -> {}

\* C8: no two activities of a run that are in flight together write the same
\* storage key.
C8_NoTwoWritersOfAKey ==
    \A x \in RunningActivities : \A y \in RunningActivities \ {x} :
        WriteKeys(x) \cap WriteKeys(y) = {}

\* C9: every execution of transcode_chunk for a unit uploads to the one key
\* derived from (video id, resolution, chunk index) and touches no other key,
\* and every execution that returns reports that unit's chunk_index,
\* resolution, that same key and success, the first execution and any later
\* one alike.
C9_ResultOfTheUnit ==
    \A k \in Units :
        LET t == transcode_tasks[k]
        IN  t.task.st = "ok" =>
                /\ t.task.val = <<t.chunk_index, t.resolution,
                                  output_segment(VideoId, t.resolution, t.chunk_index),
                                  TRUE>>
                /\ output_segment(VideoId, t.resolution, t.chunk_index) \in store

C9_WritesOnlyItsKey ==
    \A k \in Units :
        LET t == transcode_tasks[k]
        IN  transcode_tasks'[k] # t =>
                /\ store \subseteq store'
                /\ store' \ store
                       \subseteq {output_segment(VideoId, t.resolution, t.chunk_index)}

C9_TranscodeIdempotent ==
    [] C9_ResultOfTheUnit /\ [][C9_WritesOnlyItsKey]_vars

\* transcode_chunk has been executed twice for one (chunk, resolution) and
\* has returned both times
C9_Witness ==
    \E k \in Units : \E j \in Units \ {k} :
        /\ transcode_tasks[k].resolution = transcode_tasks[j].resolution
        /\ transcode_tasks[k].chunk_index = transcode_tasks[j].chunk_index
        /\ transcode_tasks[k].task.st = "ok"
        /\ transcode_tasks[j].task.st = "ok"

\* C10: an activity that will be attempted again has failed at most twice and
\* waits min(2 * 2^(k-1), 30) seconds after its k-th failure; an activity
\* becomes a terminal failure only on its own third failed attempt, is never
\* attempted again afterwards, and a step that uses up an attempt of one
\* activity changes the attempts of no other.
C10_BackoffOf(a) ==
    InFlight(a) =>
        /\ a.att <= 2
        /\ a.att >= 1 => a.wait = Min(2 * Pow(2, a.att - 1), 30)

C10_Budget ==
    /\ \A n \in SingleActivities : C10_BackoffOf(acts[n])
    /\ \A k \in Units : C10_BackoffOf(transcode_tasks[k].task)
    /\ \A j \in DOMAIN playlist_tasks : C10_BackoffOf(playlist_tasks[j].task)

C10_StepOf(a, b) ==
    /\ a.st = "failed" => b = a
    /\ (InFlight(a) /\ b.st = "failed") => a.att = 2
    /\ (InFlight(a) /\ InFlight(b)) => b.att \in {a.att, a.att + 1}

C10_OwnAttempts ==
    /\ \A n \in SingleActivities : C10_StepOf(acts[n], acts'[n])
    /\ \A k \in Units :
           /\ C10_StepOf(transcode_tasks[k].task, transcode_tasks'[k].task)
           /\ transcode_tasks'[k] # transcode_tasks[k] =>
                  \A j \in Units \ {k} : transcode_tasks'[j] = transcode_tasks[j]
    /\ \A j \in DOMAIN playlist_tasks :
           /\ C10_StepOf(playlist_tasks[j].task, playlist_tasks'[j].task)
           /\ playlist_tasks'[j] # playlist_tasks[j] =>
                  \A i \in DOMAIN playlist_tasks \ {j} :
                      playlist_tasks'[i] = playlist_tasks[i]

C10_BoundedPerUnitRetries ==
    [] C10_Budget /\ [][C10_OwnAttempts]_vars

\* one unit has used up its three attempts while a sibling, two failures in,
\* waits four seconds for its third
C10_Witness ==
    \E k \in Units : \E j \in Units \ {k} :
        /\ transcode_tasks[k].task.st = "failed"
        /\ InFlight(transcode_tasks[j].task)
        /\ transcode_tasks[j].task.att = 2
        /\ transcode_tasks[j].task.wait = 4

\* the pair of unit k was dispatched once
OnlyUnitOfItsPair(k) ==
    UnitsOf(transcode_tasks[k].resolution, transcode_tasks[k].chunk_index) = {k}

C11_Kept(a, b) == Settled(a) => b = a

\* C11 (amended): an activity whose result is recorded is never scheduled or
\* executed again, whatever crashes, and a coordinator that has replayed its
\* history up to the await it crashed at holds what it held there.
C11_SettledWorkIsKept ==
    /\ \A n \in SingleActivities : C11_Kept(acts[n], acts'[n])
    /\ \A k \in Units :
           /\ k \in DOMAIN transcode_tasks'
           /\ C11_Kept(transcode_tasks[k].task, transcode_tasks'[k].task)
    /\ \A j \in DOMAIN playlist_tasks :
           /\ j \in DOMAIN playlist_tasks'
           /\ C11_Kept(playlist_tasks[j].task, playlist_tasks'[j].task)

C11_ReplayRestores ==
    pc = resumed_from.pc => locals = resumed_from.locals

PlaylistsDone == {j \in DOMAIN playlist_tasks : playlist_tasks[j].task.st = "ok"}

\* C12: the result of a finished run is fixed by the outcome of every unit
\* and playlist activity, whatever the order they completed in: its unit
\* errors are exactly the (chunk, resolution) pairs of the failed units, its
\* variants are the resolutions of the playlists that were written, listed
\* from the highest to the lowest, success says whether there is one, and
\* every playlist lists its segments by ascending chunk index.
C12_ResultIgnoresCompletionOrder ==
    (pc = "done" /\ transcode_tasks # <<>>) =>
        /\ {e \in Range(result.errors) : e.chunk_index >= 0}
               = {[resolution |-> transcode_tasks[k].resolution,
                   chunk_index |-> transcode_tasks[k].chunk_index] : k \in FailedUnits}
        /\ Range(result.variants)
               = {playlist_tasks[j].resolution : j \in PlaylistsDone}
        /\ Len(result.variants) = Cardinality(PlaylistsDone)
        /\ \A i \in 1..(Len(result.variants) - 1) :
               RESOLUTION_HEIGHTS[result.variants[i]]
                   >= RESOLUTION_HEIGHTS[result.variants[i + 1]]
        /\ result.success <=> PlaylistsDone # {}
        /\ \A j \in PlaylistsDone :
               LET body == playlist_tasks[j].task.val[2]
               IN  /\ Len(body) = chunk_count
                   /\ \A i \in 1..Len(body) :
                          body[i] = "segments/seg_000" \o ToString(i - 1) \o ".ts"

\* a finished run of two chunks in which one resolution was published and a
\* unit of the other failed after a sibling had succeeded
C12_Witness ==
    /\ pc = "done"
    /\ chunk_count = 2
    /\ Cardinality(UnitResolutions) = 2
    /\ Len(result.variants) = 1
    /\ \E k \in FailedUnits : \E j \in Units :
           /\ transcode_tasks[j].resolution = transcode_tasks[k].resolution
           /\ transcode_tasks[j].task.st = "ok"

\* the optional activity settled without a usable result: it returned
\* success=false or raised after its retries
BranchFailed(name) ==
    \/ acts[name].st = "failed"
    \/ acts[name].st = "ok" /\ ~acts[name].val[1]

\* the coordinator has consumed the gather of the optional branches
PastBranch == pc \notin {"start", "download", "metadata", "branch"}

WarningsNaming(name) == Len(SelectSeq(result.warnings, LAMBDA w : w = name))

\* C13: a failed thumbnail or scene-detection branch does not end the run and
\* does not touch its success flag or variants: past the branch, split_video
\* has been dispatched exactly when there is a target resolution, a finished
\* run fails only at split or transcode, its success and variants are those
\* the required activities give, and its result carries exactly one warning
\* naming the failed component and no error entry for it.
C13_BranchFailureIsAWarning ==
    \A name \in {"thumbnail", "scene_detection"} :
        (BranchFailed(name) /\ PastBranch) =>
            /\ acts["split"].st = "idle"
                   <=> determine_target_resolutions(
                           source_height, opts.target_resolutions) = <<>>
            /\ pc = "done" =>
                   /\ result.stage \in {None, "split", "transcode"}
                   /\ result.success
                          <=> \/ acts["split"].st = "idle"
                              \/ PlaylistsDone # {}
                   /\ Range(result.variants)
                          = {playlist_tasks[j].resolution : j \in PlaylistsDone}
                   /\ WarningsNaming(name) = 1
                   /\ \A e \in Range(result.errors) : e.resolution # name

\* a run that published a variant although the thumbnail raised on every
\* attempt and scene detection returned success=false
C13_Witness ==
    /\ pc = "done"
    /\ acts["thumbnail"].st = "failed"
    /\ acts["scene_detection"].st = "ok"
    /\ BranchFailed("scene_detection")
    /\ result.success
    /\ result.variants # <<>>

\* C14: the optional branches never gate the required path: while the
\* coordinator is past metadata with the optional activities dispatched, its
\* step to resolution selection and the split is enabled whether or not the
\* thumbnail or scene-detection activity is still running.
C14_BranchesNeverGate ==
    pc = "branch" => ENABLED AfterBranch

C16_StoredAssetSkipsDownload ==
    video.stored => acts["download"].st = "idle"

\* C16 (amended): the download is skipped exactly when the run was started
\* without a URL; such a run dispatches no download activity and starts at
\* metadata probing, and a run started with a URL downloads first, whether
\* or not the asset is in the store.
C16_NoUrlSkipsDownload ==
    /\ ~youtube_url =>
           /\ acts["download"].st = "idle"
           /\ pc # "start" => acts["metadata"].st # "idle"
    /\ (youtube_url /\ pc # "start") =>
           /\ acts["download"].st # "idle"
           /\ acts["metadata"].st # "idle" => acts["download"].st = "ok"

\* a run started without a URL has probed the stored asset
C16_Witness ==
    /\ ~youtube_url
    /\ video.stored
    /\ acts["metadata"].st = "ok"
    /\ acts["download"].st = "idle"

\* ------------------------------------------------ the resolution policy
\* the coordinator has applied the policy to the probed height
PolicyApplied == pc # "metadata"

\* how often name r stands in list s
Occurrences(s, r) == Cardinality({i \in DOMAIN s : s[i] = r})

\* the rungs of the ladder strictly below height h
RungsBelow(h) == {r \in {"320p", "480p", "720p", "1080p"} :
                     RESOLUTION_HEIGHTS[r] < h}

\* C17: whatever the request (empty, with unknown names, with rungs at or
\* above the source height), every resolution the policy returns is a rung
\* of the ladder whose height is strictly below the source height.
C17_NeverUpscales ==
    PolicyApplied =>
        \A i \in DOMAIN target_resolutions :
            /\ target_resolutions[i] \in DOMAIN RESOLUTION_HEIGHTS
            /\ RESOLUTION_HEIGHTS[target_resolutions[i]] < source_height

\* a request with an unknown name and with the source's own rung, of which
\* something is kept
C17_Witness ==
    /\ PolicyApplied
    /\ source_height = 720
    /\ "4k" \in Range(opts.target_resolutions)
    /\ "720p" \in Range(opts.target_resolutions)
    /\ target_resolutions = <<"480p">>

\* C18: with an empty or absent request, and so for a run started with
\* empty options, the policy returns exactly the rungs of the ladder strictly
\* below the source height, each once, from the highest to the lowest; a
\* source of height 1080 gives 720p, 480p, 320p.
C18_AutoSelectsRungsBelow ==
    (PolicyApplied
     /\ (opts.target_resolutions = <<>> \/ opts = from_dict(<<>>))) =>
        /\ Range(target_resolutions) = RungsBelow(source_height)
        /\ \A i, j \in DOMAIN target_resolutions :
               i < j => RESOLUTION_HEIGHTS[target_resolutions[i]]
                        > RESOLUTION_HEIGHTS[target_resolutions[j]]
        /\ source_height = 1080 =>
               target_resolutions = <<"720p", "480p", "320p">>

\* a run started with empty options on a source of height 1080
C18_Witness ==
    /\ PolicyApplied
    /\ opts = from_dict(<<>>)
    /\ source_height = 1080
    /\ target_resolutions = <<"720p", "480p", "320p">>
    /\ acts["split"].st = "pending"

\* C19: with a non-empty request the policy returns exactly the requested
\* names that are rungs of the ladder strictly below the source height, each
\* as often as it was requested, from the highest to the lowest; unknown
\* names are dropped, and when nothing remains the result is empty even if
\* rungs below the source exist.
C19_FiltersTheRequest ==
    (PolicyApplied /\ opts.target_resolutions # <<>>) =>
        LET requested == opts.target_resolutions
            kept == Range(requested) \cap RungsBelow(source_height)
        IN  /\ Range(target_resolutions) = kept
            /\ \A r \in kept : Occurrences(target_resolutions, r)
                               = Occurrences(requested, r)
            /\ \A i, j \in DOMAIN target_resolutions :
                   i < j => RESOLUTION_HEIGHTS[target_resolutions[i]]
                            >= RESOLUTION_HEIGHTS[target_resolutions[j]]
            /\ kept = {} => target_resolutions = <<>>

\* a request written lowest first with an unknown name in it
C19_Witness ==
    /\ PolicyApplied
    /\ source_height = 1080
    /\ opts.target_resolutions = <<"320p", "4k", "720p">>
    /\ target_resolutions = <<"720p", "320p">>

\* ------------------------------------------------- nothing to transcode
\* stage 4 has run and the policy left no target resolution
NoTargets ==
    /\ PastBranch
    /\ acts["metadata"].st = "ok"
    /\ determine_target_resolutions(source_height, opts.target_resolutions)
       = <<>>

\* C20: when the policy leaves no target resolution (the source is at or
\* below the lowest rung, or every requested rung was filtered out), the run
\* dispatches no split, no transcode unit, no variant or master playlist,
\* and has returned success with no variant and no error.
C20_NoTargetsIsSuccess ==
    NoTargets =>
        /\ acts["split"].st = "idle"
        /\ transcode_tasks = <<>>
        /\ playlist_tasks = <<>>
        /\ acts["master"].st = "idle"
        /\ pc = "done"
        /\ result.success
        /\ result.stage = None
        /\ result.variants = <<>>
        /\ result.errors = <<>>

\* a run whose only requested rung is the source's own
C20_Witness ==
    /\ NoTargets
    /\ source_height = 480
    /\ opts.target_resolutions = <<"480p">>
    /\ result.success

\* ------------------------------------------------ splitting, reassembling
\* C21: a split of a source of N chunks reports chunk_count = N and the
\* chunks numbered 0..N-1 in order, each under its own key, and every variant
\* playlist that was generated lists exactly the N segments seg_0000 ..
\* seg_(N-1), each once and in increasing order.
C21_SplitThenReassemble ==
    /\ acts["split"].st = "ok" =>
           LET split_result == acts["split"].val
           IN  /\ split_result[1] = video.chunks
               /\ Len(split_result[2]) = video.chunks
               /\ \A i \in 1..video.chunks :
                      /\ split_result[2][i].index = i - 1
                      /\ split_result[2][i].key \in store
               /\ Cardinality({c.key : c \in Range(split_result[2])})
                  = video.chunks
    /\ \A j \in PlaylistsDone :
           LET body == playlist_tasks[j].task.val[2]
           IN  /\ Len(body) = video.chunks
               /\ \A i \in 1..video.chunks :
                      body[i] = "segments/seg_000" \o ToString(i - 1) \o ".ts"

\* a resolution of three chunks has its playlist
C21_Witness ==
    /\ video.chunks = 3
    /\ PlaylistsDone # {}

\* --------------------------------------------------------- failed results
\* C22: every returned result with success = false names the stage that
\* failed and carries the underlying cause.
C22_FailureNamesStageAndCause ==
    (pc = "done" /\ ~result.success) =>
        /\ result.stage \in {"download", "metadata", "split", "transcode",
                             "playlist"}
        /\ result.error # None

\* ------------------------------------------------------- chapters disabled
\* C23: in a run whose options disable chapter detection no scene-detection
\* and no chapter-file activity is dispatched, no chapter file is in the
\* store, and the chapters field of the returned result is null.
C23_ChaptersDisabled ==
    ~opts.chapters_enabled =>
        /\ acts["scene_detection"].st = "idle"
        /\ acts["chapter_files"].st = "idle"
        /\ store \cap ChapterKeys = {}
        /\ pc = "done" => result.chapters = None

\* a run with a thumbnail and without chapters has published its variant
C23_Witness ==
    /\ ~opts.chapters_enabled
    /\ opts.thumbnail_mode = "auto"
    /\ pc = "done"
    /\ result.success
    /\ result.variants # <<>>

\* ============================================================ detect_scenes
\* Times are whole seconds.

\* for t in scene_times[1:]: keep t when it is at least min_chapter_duration
\* after the last time kept
RECURSIVE MergeShortScenes(_, _, _)
MergeShortScenes(merged_times, times, min_chapter_duration) ==
    IF times = <<>> THEN merged_times
    ELSE MergeShortScenes(
             IF Head(times) - merged_times[Len(merged_times)]
                >= min_chapter_duration
             THEN Append(merged_times, Head(times))
             ELSE merged_times,
             Tail(times), min_chapter_duration)

\* a merge that closes the last chapter wherever the video ends
EnsureEndAppends(merged_times, video_duration, min_chapter_duration) ==
    IF merged_times[Len(merged_times)] # video_duration
    THEN Append(merged_times, video_duration)
    ELSE merged_times

\* "Ensure we end at video duration"
EnsureEnd(merged_times, video_duration, min_chapter_duration) ==
    IF merged_times[Len(merged_times)] # video_duration
    THEN IF video_duration - merged_times[Len(merged_times)]
            < min_chapter_duration
         THEN [merged_times EXCEPT ![Len(merged_times)] = video_duration]
         ELSE Append(merged_times, video_duration)
    ELSE merged_times

Chapter(index, start_time, end_time) ==
    [index |-> index, start_time |-> start_time, end_time |-> end_time,
     duration |-> end_time - start_time,
     is_intro |-> FALSE, is_outro |-> FALSE]

\* duration <= 60: the longest chapter marked as intro or outro
IntroOutroSeconds == 60

\* a marking that looks at the length of a chapter only
MarkedByLength(chapter, i, last, detect_intro, detect_outro) ==
    [chapter EXCEPT
        !.is_intro = detect_intro /\ chapter.duration <= IntroOutroSeconds,
        !.is_outro = detect_outro /\ chapter.duration <= IntroOutroSeconds]

\* is_intro and is_outro of the chapter made in iteration i of
\* range(len(merged_times) - 1), whose last iteration is last
Marked(chapter, i, last, detect_intro, detect_outro) ==
    [chapter EXCEPT
        !.is_intro = detect_intro /\ i = 0
                     /\ chapter.duration <= IntroOutroSeconds,
        !.is_outro = detect_outro /\ i = last
                     /\ chapter.duration <= IntroOutroSeconds]

\* the chapters of a detect_scenes call that returns success
DetectedChapters(video_duration, min_chapter_duration, scene_timestamps, detect_intro, detect_outro) ==
    IF video_duration < min_chapter_duration * 2
    THEN <<Chapter(0, 0, video_duration)>>
    ELSE LET scene_times == <<0>> \o scene_timestamps \o <<video_duration>>
             merged_times == EnsureEnd(
                 MergeShortScenes(<<0>>, Tail(scene_times),
                                  min_chapter_duration),
                 video_duration, min_chapter_duration)
             chapters == [i \in 1..(Len(merged_times) - 1) |->
                             Marked(Chapter(i - 1, merged_times[i],
                                            merged_times[i + 1]),
                                    i - 1, Len(merged_times) - 2,
                                    detect_intro, detect_outro)]
         IN  IF Len(chapters) = 0
             THEN <<Chapter(0, 0, video_duration)>>
             ELSE chapters

\* ascending lists of at most n times within [0, d]
AscendingTimes(d, n) ==
    {ts \in SeqsUpTo(0..d, n) : \A i \in 1..(Len(ts) - 1) : ts[i] <= ts[i + 1]}

InitScenes ==
    /\ \E d \in 1..MaxDuration, m \in 1..MaxDuration :
       \E ts \in AscendingTimes(d, MaxScenes) :
       \E detect_intro \in BOOLEAN, detect_outro \in BOOLEAN :
           ApartInit("scene_call",
                     [video_duration |-> d, min_chapter_duration |-> m,
                      scene_timestamps |-> ts,
                      detect_intro |-> detect_intro,
                      detect_outro |-> detect_outro, returned |-> FALSE,
                      success |-> FALSE, chapters |-> <<>>])
    /\ PipelineAtRest

\* the activity runs to its return
DetectScenes ==
    /\ ~scene_call.returned
    /\ scene_call' = [scene_call EXCEPT
           !.returned = TRUE,
           !.success = TRUE,
           !.chapters = DetectedChapters(scene_call.video_duration,
                                         scene_call.min_chapter_duration,
                                         scene_call.scene_timestamps,
                                         scene_call.detect_intro,
                                         scene_call.detect_outro)]

\* the download fails, ffmpeg times out or anything else raises
DetectScenesFails ==
    /\ ~scene_call.returned
    /\ scene_call' = [scene_call EXCEPT !.returned = TRUE, !.success = FALSE]

NextScenes ==
    (DetectScenes \/ DetectScenesFails)
    /\ UNCHANGED <<pipeline, beside_scene_call>>

SpecScenes == InitScenes /\ [][NextScenes]_vars

\* C24 as stated: every chapter a successful detect_scenes returns lasts at
\* least the minimum chapter duration.
C24_EveryChapterRespectsFloor ==
    (scene_call.returned /\ scene_call.success) =>
        \A i \in DOMAIN scene_call.chapters :
            scene_call.chapters[i].duration >= scene_call.min_chapter_duration

\* C24 (amended): when the video is at least as long as the minimum chapter
\* duration every chapter of a successful detect_scenes lasts at least the
\* minimum; a shorter video comes back as one chapter that spans it.
C24_FloorUnlessVideoShorter ==
    (scene_call.returned /\ scene_call.success) =>
        LET d == scene_call.video_duration
            m == scene_call.min_chapter_duration
            chapters == scene_call.chapters
        IN  /\ d >= m => \A i \in DOMAIN chapters : chapters[i].duration >= m
            /\ d < m => /\ Len(chapters) = 1
                        /\ chapters[1].start_time = 0
                        /\ chapters[1].end_time = d
                        /\ chapters[1].duration = d

\* scene changes too close to each other and to the end were merged away
C24_Witness ==
    /\ scene_call.returned
    /\ scene_call.success
    /\ scene_call.video_duration = 8
    /\ scene_call.min_chapter_duration = 3
    /\ scene_call.scene_timestamps = <<2, 4, 7>>
    /\ Len(scene_call.chapters) = 2
    /\ scene_call.chapters[2].end_time = 8

\* ======================================================= generate_thumbnail
\* Times are milliseconds.  A timestamp string is the tuple of its fields
\* between the colons: <<s>>, <<m, s>> or <<h, m, s>>, with h and m whole
\* numbers and s in milliseconds; <<>> is no timestamp.

THUMBNAIL_CONFIG ==
    [default_timestamp |-> <<0, 0, 5000>>,
     fallback_timestamp |-> <<0, 0, 1000>>,
     min_video_duration |-> 5000]

parse_timestamp(timestamp) ==
    CASE Len(timestamp) = 3 ->
             timestamp[1] * 3600000 + timestamp[2] * 60000 + timestamp[3]
      [] Len(timestamp) = 2 -> timestamp[1] * 60000 + timestamp[2]
      [] OTHER -> timestamp[1]

\* "{s:05.2f}": s to the nearest hundredth of a second; half-way, the digits
\* printed are those of the binary float, which lies above or below
TwoDecimals(s, above) ==
    LET r == s % 10
    IN  IF r < 5 THEN s - r
        ELSE IF r > 5 THEN s + (10 - r)
        ELSE IF above THEN s + 5 ELSE s - 5

format_timestamp(seconds, above) ==
    <<seconds \div 3600000, (seconds % 3600000) \div 60000,
      TwoDecimals(seconds % 60000, above)>>

Max(a, b) == IF a > b THEN a ELSE b

\* a clamp to the end of the asset itself
ClampedTimestampToEnd(custom_timestamp, video_duration, above) ==
    IF parse_timestamp(custom_timestamp) >= video_duration
    THEN format_timestamp(video_duration, above)
    ELSE custom_timestamp

\* Step 2 of generate_thumbnail in custom mode with a duration
ClampedTimestamp(custom_timestamp, video_duration, above) ==
    IF parse_timestamp(custom_timestamp) >= video_duration
    THEN format_timestamp(Max(0, video_duration - 1000), above)
    ELSE custom_timestamp

\* Step 2 of generate_thumbnail: the timestamp handed to ffmpeg -ss
ThumbnailTimestamp(mode, custom_timestamp, video_duration, above) ==
    IF mode = "custom" /\ custom_timestamp # <<>>
    THEN IF video_duration # 0
         THEN ClampedTimestamp(custom_timestamp, video_duration, above)
         ELSE custom_timestamp
    ELSE IF video_duration # 0
            /\ video_duration < THUMBNAIL_CONFIG.min_video_duration
         THEN THUMBNAIL_CONFIG.fallback_timestamp
         ELSE THUMBNAIL_CONFIG.default_timestamp

\* seconds fields a caller writes
CallerSeconds == {0, 5, 500, 996, 1000, 1995, 2000, 59996}

CallerTimestamps ==
    {<<sec>> : sec \in CallerSeconds}
    \cup {<<m, sec>> : m \in 0..1, sec \in CallerSeconds}
    \cup {<<h, m, sec>> : h \in 0..1, m \in 0..1, sec \in CallerSeconds}

\* durations ffprobe reports; 0 stands for a duration that is not known
ProbedDurations == {0, 1, 5, 6, 500, 995, 1000, 1005, 1006, 1995, 2000, 4999,
                    5000, 60996, 61000, 61005, 3661000, 3661996}

InitThumbnail ==
    /\ \E mode \in {"auto", "custom"}, d \in ProbedDurations,
          t \in CallerTimestamps \cup {<<>>} :
           /\ mode = "auto" => t = <<>>
           /\ ApartInit("thumbnail_call",
                        [mode |-> mode, custom_timestamp |-> t,
                         video_duration |-> d, returned |-> FALSE,
                         success |-> FALSE, timestamp |-> <<>>])
    /\ PipelineAtRest

\* the frame is extracted and uploaded
GenerateThumbnail ==
    /\ ~thumbnail_call.returned
    /\ \E above \in BOOLEAN :
           thumbnail_call' = [thumbnail_call EXCEPT
               !.returned = TRUE,
               !.success = TRUE,
               !.timestamp = ThumbnailTimestamp(thumbnail_call.mode,
                                                thumbnail_call.custom_timestamp,
                                                thumbnail_call.video_duration,
                                                above)]

\* the download, ffmpeg or the upload fails
GenerateThumbnailFails ==
    /\ ~thumbnail_call.returned
    /\ thumbnail_call' = [thumbnail_call EXCEPT !.returned = TRUE,
                                                !.success = FALSE]

NextThumbnail ==
    (GenerateThumbnail \/ GenerateThumbnailFails)
    /\ UNCHANGED <<pipeline, beside_thumbnail_call>>

SpecThumbnail == InitThumbnail /\ [][NextThumbnail]_vars

\* a custom-mode call with a timestamp and a known duration has extracted
\* its frame
CustomFrameTaken ==
    /\ thumbnail_call.returned
    /\ thumbnail_call.success
    /\ thumbnail_call.mode = "custom"
    /\ thumbnail_call.custom_timestamp # <<>>
    /\ thumbnail_call.video_duration > 0

\* C25 as stated: the timestamp used is T when T < D and max(0, D - 1 s)
\* when T >= D, and lies strictly before the end of the asset.
C25_ClampedBeforeEnd ==
    CustomFrameTaken =>
        LET T == thumbnail_call.custom_timestamp
            D == thumbnail_call.video_duration
            used == thumbnail_call.timestamp
        IN  /\ parse_timestamp(T) < D => used = T
            /\ parse_timestamp(T) >= D =>
                   parse_timestamp(used) = Max(0, D - 1000)
            /\ parse_timestamp(used) < D

\* C25 (amended): the timestamp used is T when T < D and, when T >= D,
\* max(0, D - 1 s) written to hundredths of a second; it lies strictly
\* before the end of the asset.
C25_ClampedToHundredths ==
    CustomFrameTaken =>
        LET T == thumbnail_call.custom_timestamp
            D == thumbnail_call.video_duration
            used == thumbnail_call.timestamp
            clamp == Max(0, D - 1000)
        IN  /\ parse_timestamp(T) < D => used = T
            /\ parse_timestamp(T) >= D =>
                   /\ parse_timestamp(used) % 10 = 0
                   /\ parse_timestamp(used) - clamp <= 5
                   /\ clamp - parse_timestamp(used) <= 5
            /\ parse_timestamp(used) < D

\* a timestamp past the end of a video of 1.006 s is clamped to 0.01 s
C25_Witness ==
    /\ CustomFrameTaken
    /\ thumbnail_call.video_duration = 1006
    /\ thumbnail_call.custom_timestamp = <<0, 2000>>
    /\ thumbnail_call.timestamp = <<0, 0, 10>>

\* ================================================== GET /status/{video_id}
\* One status request arrives at any moment of a run.  Its handler awaits
\* handle.result(), which returns what run() returned once the run is over
\* and raises when the workflow cannot be read (it does not exist, it was
\* terminated, the server cannot be reached).
NoQuery == [state |-> "none", status |-> None, has_result |-> FALSE,
            result |-> NoResult, terminated |-> FALSE]

InitStatus ==
    /\ \E in \in Inputs :
           /\ GridSize(in.opts, in.video) <= MaxQueryUnits
           /\ youtube_url = in.url
           /\ opts = in.opts
           /\ video = in.video
    /\ NotStarted
    /\ ApartInit("status_query", NoQuery)

\* the request has reached `result = await handle.result()`
GetVideoStatus ==
    /\ status_query.state = "none"
    /\ status_query' = [status_query EXCEPT !.state = "waiting"]
    /\ UNCHANGED <<pipeline, beside_status_query>>

\* handle.result() returns: the handler answers "completed" with the result
StatusResultReturns ==
    /\ status_query.state = "waiting"
    /\ pc = "done"
    /\ status_query' = [state |-> "answered", status |-> "completed",
                        has_result |-> TRUE, result |-> result,
                        terminated |-> TRUE]
    /\ UNCHANGED <<pipeline, beside_status_query>>

\* handle.result() raises: the handler answers "processing" with no result
StatusResultRaises ==
    /\ status_query.state = "waiting"
    /\ status_query' = [state |-> "answered", status |-> "processing",
                        has_result |-> FALSE, result |-> NoResult,
                        terminated |-> pc = "done"]
    /\ UNCHANGED <<pipeline, beside_status_query>>

NextStatus ==
    \/ Next
    \/ GetVideoStatus
    \/ StatusResultReturns
    \/ StatusResultRaises

SpecStatus == InitStatus /\ [][NextStatus]_vars

\* C26: a status request is answered with one of the three states; while the
\* run is going on the answer is "processing" and does not wait for the run
\* to end; once the run has returned the answer carries its result, with
\* state "completed" for a success and "failed" for a failure.
C26_StatusAnswers ==
    /\ status_query.state = "answered" =>
           status_query.status \in {"processing", "completed", "failed"}
    /\ (status_query.state = "waiting" /\ pc # "done") =>
           ENABLED StatusResultReturns
    /\ (status_query.state = "answered" /\ ~status_query.terminated) =>
           status_query.status = "processing"
    /\ (status_query.state = "answered" /\ status_query.terminated) =>
           /\ status_query.has_result
           /\ status_query.result = result
           /\ status_query.status =
                  IF result.success THEN "completed" ELSE "failed"

\* ============================================================ task locking
\* locking.tasks is the tasks table: per row its status, locked_by and the
\* request whose open transaction holds the row lock (0 for none).
\* locking.grabs is the requests: where each stands in grab_task, the server
\* it runs on and the row it selected (0 for none).
Servers == {"worker-1", "worker-2"}

NoGrab == [pc |-> "idle", server |-> None, task |-> 0]

InitLocking ==
    /\ \E n \in 1..MaxTasks :
           ApartInit("locking",
               [tasks |-> [i \in 1..n |->
                              [status |-> "PENDING", locked_by |-> None,
                               row_lock |-> 0]],
                grabs |-> [r \in 1..MaxGrabs |-> NoGrab]])
    /\ PipelineAtRest

\* a select that takes no row lock and skips none
PendingRows(tasks) == {i \in DOMAIN tasks : tasks[i].status = "PENDING"}

\* WHERE status = 'PENDING' ... FOR UPDATE SKIP LOCKED: the pending rows no
\* other transaction has locked
PendingUnlocked(tasks) ==
    {i \in DOMAIN tasks : tasks[i].status = "PENDING" /\ tasks[i].row_lock = 0}

\* ORDER BY id LIMIT 1
FirstRow(rows) == CHOOSE i \in rows : \A j \in rows : i <= j

\* Step 1 finds a row: the transaction of request r locks it
SelectForUpdate(r) ==
    /\ locking.grabs[r].pc = "idle"
    /\ PendingUnlocked(locking.tasks) # {}
    /\ \E server \in Servers :
           LET task_id == FirstRow(PendingUnlocked(locking.tasks))
           IN  locking' = [locking EXCEPT
                   !.tasks[task_id].row_lock = r,
                   !.grabs[r] = [pc |-> "selected", server |-> server,
                                 task |-> task_id]]
    /\ UNCHANGED <<pipeline, beside_locking>>

\* Step 1 finds nothing: "No pending tasks available"
NoPendingTask(r) ==
    /\ locking.grabs[r].pc = "idle"
    /\ PendingUnlocked(locking.tasks) = {}
    /\ \E server \in Servers :
           locking' = [locking EXCEPT
               !.grabs[r] = [pc |-> "none", server |-> server, task |-> 0]]
    /\ UNCHANGED <<pipeline, beside_locking>>

\* Step 2: UPDATE ... SET status = 'PROCESSING', locked_by; commit, which
\* releases the row lock
MarkProcessing(r) ==
    /\ locking.grabs[r].pc = "selected"
    /\ LET task_id == locking.grabs[r].task
       IN  locking' = [locking EXCEPT
               !.tasks[task_id] = [status |-> "PROCESSING",
                                   locked_by |-> locking.grabs[r].server,
                                   row_lock |-> 0],
               !.grabs[r].pc = "processing"]
    /\ UNCHANGED <<pipeline, beside_locking>>

\* Steps 3 and 4: after the work, UPDATE ... SET status = 'COMPLETED'; commit
MarkCompleted(r) ==
    /\ locking.grabs[r].pc = "processing"
    /\ LET task_id == locking.grabs[r].task
       IN  locking' = [locking EXCEPT
               !.tasks[task_id].status = "COMPLETED",
               !.grabs[r].pc = "completed"]
    /\ UNCHANGED <<pipeline, beside_locking>>

\* a statement raises: rollback of what is not committed, HTTP 500.  Before
\* the first commit the row goes back unlocked and PENDING, and the request
\* holds no task; after it the row stays PROCESSING
GrabTaskRaises(r) ==
    /\ locking.grabs[r].pc \in {"selected", "processing"}
    /\ LET task_id == locking.grabs[r].task
       IN  locking' = [locking EXCEPT
               !.tasks[task_id].row_lock = IF @ = r THEN 0 ELSE @,
               !.grabs[r].pc = "error",
               !.grabs[r].task =
                   IF locking.grabs[r].pc = "selected" THEN 0 ELSE @]
    /\ UNCHANGED <<pipeline, beside_locking>>

NextLocking ==
    \E r \in 1..MaxGrabs :
        \/ SelectForUpdate(r)
        \/ NoPendingTask(r)
        \/ MarkProcessing(r)
        \/ MarkCompleted(r)
        \/ GrabTaskRaises(r)

SpecLocking == InitLocking /\ [][NextLocking]_vars

\* the requests that have grabbed a task
Grabbed == {r \in 1..MaxGrabs : locking.grabs[r].task # 0}

\* no two requests have grabbed the same task
C27_NoTaskGrabbedTwice ==
    \A r1, r2 \in Grabbed :
        r1 # r2 => locking.grabs[r1].task # locking.grabs[r2].task

\* a status changes only from PENDING to PROCESSING and from PROCESSING to
\* COMPLETED
C27_StatusMovesForward ==
    \A i \in DOMAIN locking.tasks :
        locking'.tasks[i].status # locking.tasks[i].status =>
            \/ /\ locking.tasks[i].status = "PENDING"
               /\ locking'.tasks[i].status = "PROCESSING"
            \/ /\ locking.tasks[i].status = "PROCESSING"
               /\ locking'.tasks[i].status = "COMPLETED"

\* a request that finds no task leaves the table as it is, then and later
C27_NoTaskNoChange ==
    \A r \in 1..MaxGrabs :
        /\ locking'.grabs[r].pc = "none" /\ locking.grabs[r].pc # "none"
               => locking'.tasks = locking.tasks
        /\ locking.grabs[r].pc = "none" => locking'.grabs[r] = locking.grabs[r]

\* C27: under every interleaving of grab-task requests no task is grabbed by
\* more than one request, a task's status only moves PENDING -> PROCESSING
\* -> COMPLETED, and a request that finds no unlocked PENDING task changes
\* no task.
C27_TaskLocking ==
    /\ []C27_NoTaskGrabbedTwice
    /\ [][C27_StatusMovesForward]_vars
    /\ [][C27_NoTaskNoChange]_vars

\* two requests work on the two tasks at once and the third found nothing
C27_Witness ==
    /\ Len(locking.tasks) = 2
    /\ locking.grabs[1].pc = "selected"
    /\ locking.grabs[2].pc = "processing"
    /\ locking.grabs[1].task # locking.grabs[2].task
    /\ locking.grabs[3].pc = "none"

\* ======================================================== multipart upload
\* One upload session.  multipart holds its row of upload_sessions
\* (total_parts, completed_parts, status), the session directory (whether it
\* exists, the part files in it and the bytes of each), the number of times
\* the final file was opened for writing and what a completed session wrote
\* into it, and
\* the requests: for each upload-part and each complete request where it
\* stands in its handler.  The session followed is not cancelled, and its
\* client sends X-Part-Hash with every part.

\* bytes per part in the sessions followed
ChunkSize == 2

\* init_upload: total_parts = ceil(file_size / chunk_size)
TotalParts(file_size, chunk_size) ==
    (file_size + chunk_size - 1) \div chunk_size

\* the bytes of a part as the client hashed them, and as they arrive when
\* they were damaged on the way
PartBytes == {"intact", "garbled"}

NoBytes == "no file"

\* hashlib.md5(content).hexdigest()
md5(content) == "md5 of " \o content

InitMultipart ==
    /\ \E file_size \in 1..(MaxParts * ChunkSize) :
           ApartInit("multipart",
               [total_parts |-> TotalParts(file_size, ChunkSize),
                completed_parts |-> <<>>,
                part_hashes |-> [p \in 1..TotalParts(file_size, ChunkSize) |-> None],
                status |-> "in_progress",
                session_dir |-> TRUE,
                part_files |-> {},
                part_bytes |-> [p \in 1..TotalParts(file_size, ChunkSize) |-> NoBytes],
                assemblies |-> 0,
                final_file |-> <<>>,
                uploads |-> [u \in 1..MaxPartUploads |->
                                [pc |-> "idle", part_number |-> 0]],
                completes |-> [c \in 1..MaxCompletes |->
                                  [pc |-> "idle", status |-> None,
                                   missing_parts |-> {}]]])
    /\ PipelineAtRest

\* an UPDATE that appends whatever the array holds
ArrayAppend(completed_parts, part_num) == Append(completed_parts, part_num)

\* UPDATE ... SET completed_parts = array_append(completed_parts, :part_num)
\* WHERE ... AND NOT :part_num = ANY(completed_parts), one statement on the
\* row as it is when the statement takes the row lock
ArrayAppendIfAbsent(completed_parts, part_num) ==
    IF part_num \in Range(completed_parts) THEN completed_parts
    ELSE Append(completed_parts, part_num)

\* a check that is content with any part
AnyPartUploaded(completed_parts, total_parts) == Len(completed_parts) >= 1

\* complete_upload: len(session.completed_parts) == session.total_parts
AllPartsUploaded(completed_parts, total_parts) ==
    Len(completed_parts) = total_parts

\* set(range(1, total_parts + 1)) - set(completed_parts)
MissingParts(completed_parts, total_parts) ==
    (1..total_parts) \ Range(completed_parts)

\* an upload-part request that was answered 400 or 500: nothing of it is left
Refused == [pc |-> "refused", part_number |-> 0]

\* upload_part, its checks: the session is in progress and the part number is
\* within 1..total_parts
UploadPartAccepted(u) ==
    /\ multipart.uploads[u].pc = "idle"
    /\ multipart.status = "in_progress"
    /\ \E part_number \in 1..multipart.total_parts :
           multipart' = [multipart EXCEPT
               !.uploads[u] = [pc |-> "accepted", part_number |-> part_number]]
    /\ UNCHANGED <<pipeline, beside_multipart>>

\* upload_part answers 400: the session is not in progress or the part number
\* is out of range
UploadPartRefused(u) ==
    /\ multipart.uploads[u].pc = "idle"
    /\ \E part_number \in 0..(multipart.total_parts + 1) :
           /\ \/ multipart.status # "in_progress"
              \/ part_number < 1
              \/ part_number > multipart.total_parts
           /\ multipart' = [multipart EXCEPT
                  !.uploads[u] = Refused]
    /\ UNCHANGED <<pipeline, beside_multipart>>

\* the part file is written (over the one that is there); its checksum
\* matches
WritePart(u) ==
    /\ multipart.uploads[u].pc = "accepted"
    /\ multipart.session_dir
    /\ multipart' = [multipart EXCEPT
           !.part_files = @ \cup {multipart.uploads[u].part_number},
           !.part_bytes[multipart.uploads[u].part_number] = "intact",
           !.uploads[u].pc = "written"]
    /\ UNCHANGED <<pipeline, beside_multipart>>

\* the bytes received are written to the part file (over the one that is
\* there), then their md5 is found to differ from X-Part-Hash: 400
ChecksumMismatch(u) ==
    /\ multipart.uploads[u].pc = "accepted"
    /\ multipart.session_dir
    /\ multipart' = [multipart EXCEPT
           !.part_files = @ \cup {multipart.uploads[u].part_number},
           !.part_bytes[multipart.uploads[u].part_number] = "garbled",
           !.uploads[u] = Refused]
    /\ UNCHANGED <<pipeline, beside_multipart>>

\* the session directory is gone and the write raises (500)
WritePartFails(u) ==
    /\ multipart.uploads[u].pc = "accepted"
    /\ ~multipart.session_dir
    /\ multipart' = [multipart EXCEPT !.uploads[u] = Refused]
    /\ UNCHANGED <<pipeline, beside_multipart>>

\* the UPDATE and its commit
RecordPart(u) ==
    /\ multipart.uploads[u].pc = "written"
    /\ multipart' = [multipart EXCEPT
           !.completed_parts =
               ArrayAppendIfAbsent(@, multipart.uploads[u].part_number),
           !.part_hashes =
               IF multipart.uploads[u].part_number \in Range(multipart.completed_parts)
               THEN @
               ELSE [@ EXCEPT ![multipart.uploads[u].part_number] = md5("intact")],
           !.uploads[u].pc = "done"]
    /\ UNCHANGED <<pipeline, beside_multipart>>

\* complete_upload on a session that is completed: answers "completed"
CompleteAlready(c) ==
    /\ multipart.completes[c].pc = "idle"
    /\ multipart.status = "completed"
    /\ multipart' = [multipart EXCEPT
           !.completes[c] = [pc |-> "returned", status |-> "completed",
                             missing_parts |-> {}]]
    /\ UNCHANGED <<pipeline, beside_multipart>>

\* complete_upload with parts missing: 400 "Missing parts: [...]"
CompleteRejected(c) ==
    /\ multipart.completes[c].pc = "idle"
    /\ multipart.status # "completed"
    /\ ~AllPartsUploaded(multipart.completed_parts, multipart.total_parts)
    /\ multipart' = [multipart EXCEPT
           !.completes[c] =
               [pc |-> "rejected", status |-> None,
                missing_parts |-> MissingParts(multipart.completed_parts,
                                               multipart.total_parts)]]
    /\ UNCHANGED <<pipeline, beside_multipart>>

\* complete_upload has verified the parts and goes on to assemble them
CompleteVerified(c) ==
    /\ multipart.completes[c].pc = "idle"
    /\ multipart.status # "completed"
    /\ AllPartsUploaded(multipart.completed_parts, multipart.total_parts)
    /\ multipart' = [multipart EXCEPT !.completes[c].pc = "assembling"]
    /\ UNCHANGED <<pipeline, beside_multipart>>

\* the parts are assembled, the file hash matches: the session is marked
\* completed and the session directory removed
Assemble(c) ==
    /\ multipart.completes[c].pc = "assembling"
    /\ multipart.session_dir
    /\ (1..multipart.total_parts) \subseteq multipart.part_files
    /\ multipart' = [multipart EXCEPT
           !.status = "completed",
           !.assemblies = @ + 1,
           !.final_file = [p \in 1..multipart.total_parts |-> multipart.part_bytes[p]],
           !.session_dir = FALSE,
           !.part_files = {},
           !.part_bytes = [p \in 1..multipart.total_parts |-> NoBytes],
           !.completes[c] = [pc |-> "returned", status |-> "completed",
                             missing_parts |-> {}]]
    /\ UNCHANGED <<pipeline, beside_multipart>>

\* a part file is not found, the file hash does not match or anything else
\* raises after the final file was opened: the session is marked failed; the
\* file left behind by a failed session is not followed
AssembleFails(c) ==
    /\ multipart.completes[c].pc = "assembling"
    /\ multipart' = [multipart EXCEPT
           !.status = "failed",
           !.assemblies = @ + 1,
           !.completes[c] = [pc |-> "failed", status |-> "failed",
                             missing_parts |-> {}]]
    /\ UNCHANGED <<pipeline, beside_multipart>>

NextMultipart ==
    \/ \E u \in 1..MaxPartUploads :
           \/ UploadPartAccepted(u)
           \/ UploadPartRefused(u)
           \/ WritePart(u)
           \/ ChecksumMismatch(u)
           \/ WritePartFails(u)
           \/ RecordPart(u)
    \/ \E c \in 1..MaxCompletes :
           \/ CompleteAlready(c)
           \/ CompleteRejected(c)
           \/ CompleteVerified(c)
           \/ Assemble(c)
           \/ AssembleFails(c)

SpecMultipart == InitMultipart /\ [][NextMultipart]_vars

\* a part number is in completed_parts at most once and, once its upload has
\* returned, exactly once; completed_parts holds at most total_parts numbers,
\* all of them part numbers of the session
C28_PartRecordedOnce ==
    /\ \A p \in Range(multipart.completed_parts) :
           /\ Occurrences(multipart.completed_parts, p) = 1
           /\ p \in 1..multipart.total_parts
    /\ Len(multipart.completed_parts) <= multipart.total_parts
    /\ \A u \in 1..MaxPartUploads :
           multipart.uploads[u].pc = "done" =>
               Occurrences(multipart.completed_parts,
                           multipart.uploads[u].part_number) = 1

\* what was recorded stays recorded
C28_NoRecordedPartLost ==
    /\ Len(multipart'.completed_parts) >= Len(multipart.completed_parts)
    /\ SubSeq(multipart'.completed_parts, 1, Len(multipart.completed_parts))
           = multipart.completed_parts

\* C28: however often and in whatever interleaving parts are uploaded to a
\* session, a part number is in completed_parts at most once and, once its
\* upload has returned, exactly once; completed_parts never holds more than
\* total_parts numbers; and no step removes a recorded part.
C28_UploadPartIdempotent ==
    /\ []C28_PartRecordedOnce
    /\ [][C28_NoRecordedPartLost]_vars

\* part 1 was uploaded three times, twice of them at once
C28_Witness ==
    /\ multipart.total_parts = 2
    /\ \A u \in 1..MaxPartUploads : multipart.uploads[u].part_number = 1
    /\ multipart.uploads[1].pc = "done"
    /\ multipart.uploads[2].pc = "written"
    /\ multipart.uploads[3].pc = "written"
    /\ multipart.completed_parts = <<1>>

\* a session is completed only with every part recorded
C29_CompletedHasEveryPart ==
    multipart.status = "completed" =>
        Range(multipart.completed_parts) = 1..multipart.total_parts

\* while every part is recorded and the session is in progress, a complete
\* request is not rejected but goes on to assemble the file
C29_EveryPartThenAccepted ==
    (/\ multipart.status = "in_progress"
     /\ Range(multipart.completed_parts) = 1..multipart.total_parts)
        => \A c \in 1..MaxCompletes :
               multipart.completes[c].pc = "idle" =>
                   /\ ENABLED CompleteVerified(c)
                   /\ ~ENABLED CompleteRejected(c)

\* a rejected complete request lists exactly the parts not recorded, at least
\* one, and leaves the session as it was
C29_RejectedLeavesInProgress ==
    \A c \in 1..MaxCompletes :
        (multipart.completes[c].pc = "idle"
             /\ multipart'.completes[c].pc = "rejected")
        => /\ multipart'.completes[c].missing_parts
                  = (1..multipart.total_parts)
                        \ Range(multipart.completed_parts)
           /\ multipart'.completes[c].missing_parts # {}
           /\ multipart'.status = multipart.status
           /\ multipart'.completed_parts = multipart.completed_parts
           /\ multipart'.part_files = multipart.part_files
           /\ multipart'.status = "in_progress"

\* a complete request that finds the session completed answers "completed"
\* and assembles nothing
C29_AlreadyCompleted ==
    \A c \in 1..MaxCompletes :
        (multipart.completes[c].pc = "idle"
             /\ multipart.status = "completed"
             /\ multipart'.completes[c].pc # "idle")
        => /\ multipart'.completes[c].pc = "returned"
           /\ multipart'.completes[c].status = "completed"
           /\ multipart'.assemblies = multipart.assemblies
           /\ multipart'.status = "completed"

FileContents == {"draft", "final"}

\* compute_hash: the SHA256 of the content, which tells the contents apart
compute_hash(content) == "sha256 of " \o content

\* generate_storage_key: "{content_hash[:8]}/{file_id}/v{version}"
generate_storage_key(version, content_hash) == <<content_hash, version>>

NoUpload ==
    [pc |-> "idle", expected_version |-> 0, content |-> "draft",
     storage_key |-> <<>>, rowcount |-> -1, answer |-> 0]

\* the file was created at version 1
InitSync ==
    /\ \E content \in FileContents :
           ApartInit("sync",
               [version |-> 1,
                content_hash |-> compute_hash(content),
                storage_key |-> generate_storage_key(1, compute_hash(content)),
                objects |-> {generate_storage_key(1, compute_hash(content))},
                uploads |-> [r \in 1..MaxSyncUploads |-> NoUpload]])
    /\ PipelineAtRest

\* upload_file up to the read of the file's row: the hash is computed, the
\* storage key made from expected_version + 1, the row found
ReceiveUpload(r) ==
    /\ sync.uploads[r].pc = "idle"
    /\ \E expected_version \in 0..(1 + MaxSyncUploads), content \in FileContents :
           sync' = [sync EXCEPT !.uploads[r] =
               [pc |-> "read",
                expected_version |-> expected_version,
                content |-> content,
                storage_key |-> generate_storage_key(expected_version + 1,
                                                     compute_hash(content)),
                rowcount |-> -1,
                answer |-> 0]]
    /\ UNCHANGED <<pipeline, beside_sync>>

\* the content_hash sent is not the hash of the content: 400
IntegrityError(r) ==
    /\ sync.uploads[r].pc = "idle"
    /\ \E expected_version \in 0..(1 + MaxSyncUploads), content \in FileContents :
           sync' = [sync EXCEPT !.uploads[r] =
               [pc |-> "answered",
                expected_version |-> expected_version,
                content |-> content,
                storage_key |-> <<>>,
                rowcount |-> -1,
                answer |-> 400]]
    /\ UNCHANGED <<pipeline, beside_sync>>

\* upload_to_minio before the metadata update
UploadToMinio(r) ==
    /\ sync.uploads[r].pc = "read"
    /\ sync' = [sync EXCEPT
           !.objects = @ \cup {sync.uploads[r].storage_key},
           !.uploads[r].pc = "uploaded"]
    /\ UNCHANGED <<pipeline, beside_sync>>

\* upload_to_minio raises: 500 "Failed to upload file content"
UploadToMinioFails(r) ==
    /\ sync.uploads[r].pc = "read"
    /\ sync' = [sync EXCEPT
           !.uploads[r].pc = "answered",
           !.uploads[r].answer = 500]
    /\ UNCHANGED <<pipeline, beside_sync>>

\* UPDATE files SET ... WHERE file_id = ... AND version = expected_version
\* finds the row: rowcount 1, committed, answered "updated"
UpdateApplied(r) ==
    /\ sync.uploads[r].pc = "uploaded"
    /\ sync.version = sync.uploads[r].expected_version
    /\ sync' = [sync EXCEPT
           !.version = sync.uploads[r].expected_version + 1,
           !.content_hash = compute_hash(sync.uploads[r].content),
           !.storage_key = sync.uploads[r].storage_key,
           !.uploads[r].pc = "answered",
           !.uploads[r].rowcount = 1,
           !.uploads[r].answer = 200]
    /\ UNCHANGED <<pipeline, beside_sync>>

\* the UPDATE finds no row at expected_version: rowcount 0, committed
UpdateMatchesNoRow(r) ==
    /\ sync.uploads[r].pc = "uploaded"
    /\ sync.version # sync.uploads[r].expected_version
    /\ sync' = [sync EXCEPT
           !.uploads[r].pc = "conflict",
           !.uploads[r].rowcount = 0]
    /\ UNCHANGED <<pipeline, beside_sync>>

\* after rowcount 0: delete_from_minio(storage_key), then the row is fetched
\* again with session.execute inside `async with session.begin()` whose
\* transaction session.commit() has already ended; the session refuses the
\* statement (InvalidRequestError), nothing catches it, and the request is
\* answered 500 before the ConflictResponse is built
ConflictAnswer(r) ==
    /\ sync.uploads[r].pc = "conflict"
    /\ sync' = [sync EXCEPT
           !.objects = @ \ {sync.uploads[r].storage_key},
           !.uploads[r].pc = "answered",
           !.uploads[r].answer = 500]
    /\ UNCHANGED <<pipeline, beside_sync>>

NextSync ==
    \E r \in 1..MaxSyncUploads :
        \/ ReceiveUpload(r)
        \/ IntegrityError(r)
        \/ UploadToMinio(r)
        \/ UploadToMinioFails(r)
        \/ UpdateApplied(r)
        \/ UpdateMatchesNoRow(r)
        \/ ConflictAnswer(r)

SpecSync == InitSync /\ [][NextSync]_vars

\* of the requests carrying the same expected_version at most one is applied
C30_AtMostOneApplied ==
    \A r1, r2 \in 1..MaxSyncUploads :
        (/\ sync.uploads[r1].rowcount = 1
         /\ sync.uploads[r2].rowcount = 1
         /\ sync.uploads[r1].expected_version = sync.uploads[r2].expected_version)
            => r1 = r2

\* a request whose UPDATE matched no row is answered 409
C30_OthersGetConflict ==
    \A r \in 1..MaxSyncUploads :
        (sync.uploads[r].pc = "answered" /\ sync.uploads[r].rowcount = 0)
            => sync.uploads[r].answer = 409

\* a request reaching the UPDATE with expected_version equal to the version of
\* the file is applied and sets the version to expected_version + 1; with any
\* other expected_version it is not applied; and version, content hash and
\* storage key of the file change in no other step
C30_OnlyExpectedVersionApplies ==
    /\ \A r \in 1..MaxSyncUploads :
           (sync.uploads[r].rowcount = -1 /\ sync'.uploads[r].rowcount # -1)
               => IF sync.uploads[r].expected_version = sync.version
                  THEN /\ sync'.uploads[r].rowcount = 1
                       /\ sync'.version = sync.version + 1
                       /\ sync'.uploads[r].answer = 200
                  ELSE sync'.uploads[r].rowcount = 0
    /\ \/ <<sync'.version, sync'.content_hash, sync'.storage_key>>
              = <<sync.version, sync.content_hash, sync.storage_key>>
       \/ \E r \in 1..MaxSyncUploads :
              /\ sync.uploads[r].rowcount = -1
              /\ sync'.uploads[r].rowcount = 1
              /\ sync.uploads[r].expected_version = sync.version

\* C30: of the upload requests carrying expected_version = v for a file at
\* version v exactly one is applied and sets the version to v + 1, every
\* other one is answered 409; a request whose expected_version is not the
\* current version is not applied and leaves version, content hash and
\* storage key as they are.
C30_OptimisticLocking ==
    /\ []C30_AtMostOneApplied
    /\ []C30_OthersGetConflict
    /\ [][C30_OnlyExpectedVersionApplies]_vars

\* the metadata half of C30, without the answers
C30_VersionCheckIsAtomic ==
    /\ []C30_AtMostOneApplied
    /\ [][C30_OnlyExpectedVersionApplies]_vars

\* two requests carried expected_version 1; one was applied, the other
\* matched no row and has been answered
C30_Witness ==
    /\ sync.version = 2
    /\ sync.uploads[1].expected_version = 1
    /\ sync.uploads[2].expected_version = 1
    /\ sync.uploads[1].rowcount = 1
    /\ sync.uploads[2].rowcount = 0
    /\ sync.uploads[2].pc = "answered"

\* ====================================================== drive file service
\* One file of the drive service (FileSyncService).  drive holds the
\* committed row of the files table (version, content_hash), the committed
\* rows of file_version_history as the sequence of their version numbers, the
\* session whose flushed and uncommitted UPDATE holds the row lock (0: none),
\* and for each session its place in update_file_optimistic_streaming, the
\* expected_version it was called with, the version its SELECT returned and
\* how it ended.

NoSession ==
    [pc |-> "idle", expected_version |-> 0, version |-> 0, outcome |-> "none"]

\* create_file_streaming: the file is at version 1, nothing is archived
InitDrive ==
    /\ ApartInit("drive",
           [version |-> 1,
            content_hash |-> "content of version 1",
            history |-> <<>>,
            row_lock |-> 0,
            sessions |-> [s \in 1..MaxDriveUpdates |-> NoSession]])
    /\ PipelineAtRest

\* get_file: the SELECT returns the committed row
GetFile(s) ==
    /\ drive.sessions[s].pc = "idle"
    /\ \E expected_version \in 1..(MaxDriveUpdates + 1) :
           drive' = [drive EXCEPT !.sessions[s] =
               [pc |-> "read", expected_version |-> expected_version,
                version |-> drive.version, outcome |-> "none"]]
    /\ UNCHANGED <<pipeline, beside_drive>>

\* the OCC check fails: ValueError "Version conflict", nothing was added
VersionConflict(s) ==
    /\ drive.sessions[s].pc = "read"
    /\ drive.sessions[s].version # drive.sessions[s].expected_version
    /\ drive' = [drive EXCEPT
           !.sessions[s].pc = "returned",
           !.sessions[s].outcome = "conflict"]
    /\ UNCHANGED <<pipeline, beside_drive>>

\* the OCC check passes on the row as it was read; the history entry is
\* added, the content uploaded, the record's fields set and the session
\* flushed: UPDATE files SET version = <version read + 1>, ... WHERE id = ...,
\* which waits for the row lock and then holds it
Flush(s) ==
    /\ drive.sessions[s].pc = "read"
    /\ drive.sessions[s].version = drive.sessions[s].expected_version
    /\ drive.row_lock = 0
    /\ drive' = [drive EXCEPT
           !.row_lock = s,
           !.sessions[s].pc = "flushed"]
    /\ UNCHANGED <<pipeline, beside_drive>>

\* the caller commits: the row and the history entry become the committed
\* state
CommitUpdate(s) ==
    /\ drive.sessions[s].pc = "flushed"
    /\ drive' = [drive EXCEPT
           !.version = drive.sessions[s].version + 1,
           !.content_hash = "content of session " \o ToString(s),
           !.history = Append(@, drive.sessions[s].version),
           !.row_lock = 0,
           !.sessions[s].pc = "returned",
           !.sessions[s].outcome = "succeeded"]
    /\ UNCHANGED <<pipeline, beside_drive>>

\* the caller's session ends without a commit: the flushed rows are gone
RollbackUpdate(s) ==
    /\ drive.sessions[s].pc = "flushed"
    /\ drive' = [drive EXCEPT
           !.row_lock = 0,
           !.sessions[s].pc = "returned",
           !.sessions[s].outcome = "rolled back"]
    /\ UNCHANGED <<pipeline, beside_drive>>

NextDrive ==
    \E s \in 1..MaxDriveUpdates :
        \/ GetFile(s)
        \/ VersionConflict(s)
        \/ Flush(s)
        \/ CommitUpdate(s)
        \/ RollbackUpdate(s)

SpecDrive == InitDrive /\ [][NextDrive]_vars

\* the updates that succeeded
SucceededUpdates ==
    {s \in 1..MaxDriveUpdates : drive.sessions[s].outcome = "succeeded"}

\* the version is 1 plus the number of updates that succeeded and the history
\* holds one entry for each of the versions 1..version-1, and no other
C31_VersionCountsUpdates ==
    /\ drive.version = 1 + Cardinality(SucceededUpdates)
    /\ Len(drive.history) = drive.version - 1
    /\ \A v \in 1..(drive.version - 1) : Occurrences(drive.history, v) = 1

\* an update succeeds only when its expected_version is the current version,
\* and an update that fails changes neither the file record nor the history
C31_StaleUpdateFails ==
    \A s \in 1..MaxDriveUpdates :
        /\ (drive'.sessions[s].outcome = "succeeded"
                /\ drive.sessions[s].outcome # "succeeded")
               => drive.sessions[s].expected_version = drive.version
        /\ (drive'.sessions[s].outcome \in {"conflict", "rolled back"}
                /\ drive.sessions[s].outcome = "none")
               => /\ drive'.version = drive.version
                  /\ drive'.content_hash = drive.content_hash
                  /\ drive'.history = drive.history

\* C31: after any sequence of content updates of one file, concurrent
\* sessions included, the version is 1 plus the number of updates that
\* succeeded and the history holds exactly one entry for each version
\* 1..version-1; an update whose expected_version is not the current version
\* fails and changes neither the file record nor the history.
C31_VersionTracking ==
    /\ []C31_VersionCountsUpdates
    /\ [][C31_StaleUpdateFails]_vars

\* ===================================================== the deployed workers
\* The run with the worker processes the repository defines.  An attempt of
\* an activity happens only when a worker that starts polls the task queue the
\* activity is dispatched to and has the activity registered.

\* task_queue= of each execute_activity in run()
TaskQueue ==
    [download |-> "download-queue",
     metadata |-> "metadata-queue",
     thumbnail |-> "metadata-queue",
     scene_detection |-> "metadata-queue",
     split |-> "split-queue",
     transcode |-> "transcode-queue",
     playlist |-> "playlist-queue",
     master |-> "playlist-queue",
     chapter_files |-> "metadata-queue"]

\* run_download_worker
DownloadWorker ==
    [starts |-> TRUE, task_queue |-> "download-queue",
     activities |-> {"download"}]

\* run_metadata_worker
MetadataWorker ==
    [starts |-> TRUE, task_queue |-> "metadata-queue",
     activities |-> {"metadata", "thumbnail", "upload_custom_thumbnail",
                     "scene_detection", "chapter_files"}]

\* run_transcode_worker: polls transcode-queue with the four whole-file
\* transcodes registered, not transcode_chunk
TranscodeWorker ==
    [starts |-> TRUE, task_queue |-> "transcode-queue",
     activities |-> {"transcode_to_320p", "transcode_to_480p",
                     "transcode_to_720p", "transcode_to_1080p"}]

\* run_chunked_worker: its module imports merge_segments, which
\* chunked_transcode does not define, so none of its workers starts
SplitWorker ==
    [starts |-> FALSE, task_queue |-> "split-queue",
     activities |-> {"split", "cleanup_source_chunks"}]

ChunkWorker ==
    [starts |-> FALSE, task_queue |-> "transcode-queue",
     activities |-> {"transcode"}]

WorkerProcesses ==
    {DownloadWorker, MetadataWorker, TranscodeWorker, SplitWorker, ChunkWorker}

\* some worker that starts polls the activity's queue
Polled(activity) ==
    \E w \in WorkerProcesses : w.starts /\ w.task_queue = TaskQueue[activity]

\* some worker that starts polls the activity's queue and can run it
HasWorker(activity) ==
    \E w \in WorkerProcesses :
        /\ w.starts
        /\ w.task_queue = TaskQueue[activity]
        /\ activity \in w.activities

\* the steps of a run with these workers: the coordinator up to the split it
\* dispatches, and the attempts of the activities dispatched until then
StartDeployed == Start /\ UNCHANGED <<resumed_from, apart>>

AfterDownloadDeployed == AfterDownload /\ UNCHANGED <<resumed_from, apart>>

AfterMetadataDeployed == AfterMetadata /\ UNCHANGED <<resumed_from, apart>>

AfterBranchDeployed == AfterBranch /\ UNCHANGED <<resumed_from, apart>>

DownloadDeployed ==
    HasWorker("download") /\ DownloadAttempt /\ UNCHANGED <<resumed_from, apart>>

MetadataDeployed ==
    HasWorker("metadata") /\ MetadataAttempt /\ UNCHANGED <<resumed_from, apart>>

ThumbnailDeployed ==
    HasWorker("thumbnail") /\ ThumbnailAttempt /\ UNCHANGED <<resumed_from, apart>>

SceneDetectionDeployed ==
    /\ HasWorker("scene_detection")
    /\ SceneDetectionAttempt
    /\ UNCHANGED <<resumed_from, apart>>

NextDeployed ==
    \/ StartDeployed
    \/ AfterDownloadDeployed
    \/ AfterMetadataDeployed
    \/ AfterBranchDeployed
    \/ DownloadDeployed
    \/ MetadataDeployed
    \/ ThumbnailDeployed
    \/ SceneDetectionDeployed

\* every worker keeps polling and the coordinator keeps running
SpecDeployed ==
    /\ Init
    /\ [][NextDeployed]_vars
    /\ WF_vars(StartDeployed)
    /\ WF_vars(AfterDownloadDeployed)
    /\ WF_vars(AfterMetadataDeployed)
    /\ WF_vars(AfterBranchDeployed)
    /\ WF_vars(DownloadDeployed)
    /\ WF_vars(MetadataDeployed)
    /\ WF_vars(ThumbnailDeployed)
    /\ WF_vars(SceneDetectionDeployed)

\* the steps of Next that NextDeployed leaves out are never enabled, but for
\* the attempt of split_video, which no worker takes
DeployedStopsAtSplit ==
    /\ ~HasWorker("split") /\ ~Polled("split")
    /\ ~HasWorker("playlist") /\ ~Polled("playlist")
    /\ ~HasWorker("master")
    /\ ~HasWorker("transcode")
    /\ ~ENABLED AfterSplit
    /\ ~ENABLED AfterTranscode
    /\ ~ENABLED AfterPlaylists
    /\ ~ENABLED AfterMaster
    /\ ~ENABLED AfterChapters
    /\ ~ENABLED ChapterFilesAttempt
    /\ ~ENABLED MasterAttempt
    /\ transcode_tasks = <<>>
    /\ playlist_tasks = <<>>

\* C32: every started run eventually reaches a terminal result, and no
\* dispatched activity stays pending forever.
C32_EveryRunTerminates ==
    /\ <>(pc = "done")
    /\ \A name \in SingleActivities :
           InFlight(acts[name]) ~> ~InFlight(acts[name])

\* ======================================================= the source asset
\* the key each stage downloads the source from
SourceKeyRead ==
    [metadata |-> metadata_source(VideoId),
     thumbnail |-> source_video(VideoId),
     scene_detection |-> source_video(VideoId),
     split |-> source_video(VideoId)]

\* C33: once the download stage has succeeded, every stage that reads the
\* source (metadata, thumbnail, scene detection, split) finds it at the key it
\* reads, and the run fails at none of them.
C33_SourceWhereDownloadWroteIt ==
    acts["download"].st = "ok" =>
        /\ \A n \in DOMAIN SourceKeyRead :
               acts[n].st # "idle" => SourceKeyRead[n] \in store
        /\ ~(pc = "done" /\ ~result.success /\ result.stage = "metadata"
                 /\ metadata_source(VideoId) \notin store)

\* ------------------------------------------ generate_hls_playlist, one call
\* chunked_transcode.py generate_hls_playlist(video_id, resolution,
\* chunk_count) against a bucket that holds any of the segments of that
\* resolution and possibly a playlist stored by an earlier call.
MaxSegments == 11

\* missing_segments[:10]: how many missing indices the error message lists
NamedMissing == 10

PlaylistResolutions == {"320p", "720p"}

\* the playlist an earlier call for a one-chunk video stored
EarlierPlaylist == PlaylistSegments(1)

InitPlaylist ==
    /\ \E resolution \in PlaylistResolutions, n \in 0..MaxSegments,
          present \in SUBSET (0..(MaxSegments - 1)), earlier \in BOOLEAN :
           ApartInit("playlist_call",
               [resolution |-> resolution,
                chunk_count |-> n,
                objects |-> {output_segment(VideoId, resolution, idx) : idx \in present}
                            \cup (IF earlier
                                  THEN {variant_playlist(VideoId, resolution)}
                                  ELSE {}),
                playlist |-> IF earlier THEN EarlierPlaylist ELSE <<>>,
                pc |-> "called",
                error |-> [named |-> <<>>, more |-> 0],
                val |-> <<>>])
    /\ PipelineAtRest

\* a check of the segments that finds every one of them
NoneMissing(call) == <<>>

\* the loop over range(chunk_count): the indices whose segment file_exists
\* does not find, in increasing order
missing_segments(call) ==
    LET miss == {idx \in 0..(call.chunk_count - 1) :
                    output_segment(VideoId, call.resolution, idx) \notin call.objects}
    IN  [i \in 1..Cardinality(miss) |->
            CHOOSE idx \in miss : Cardinality({m \in miss : m < idx}) = i - 1]

\* f"Missing segments for {resolution}: {missing_segments[:10]}" and
\* "... and N more" when more than ten are missing
MissingMessage(missing) ==
    [named |-> SubSeq(missing, 1,
                      IF Len(missing) > NamedMissing THEN NamedMissing ELSE Len(missing)),
     more |-> IF Len(missing) > NamedMissing THEN Len(missing) - NamedMissing ELSE 0]

\* a segment is missing: RuntimeError before the playlist is built
PlaylistSegmentsMissing ==
    /\ playlist_call.pc = "called"
    /\ missing_segments(playlist_call) # <<>>
    /\ playlist_call' = [playlist_call EXCEPT
           !.pc = "raised",
           !.error = MissingMessage(missing_segments(playlist_call))]

\* every segment exists: the playlist is built and upload_fileobj stores it
PlaylistUploaded ==
    /\ playlist_call.pc = "called"
    /\ missing_segments(playlist_call) = <<>>
    /\ playlist_call' = [playlist_call EXCEPT
           !.pc = "returned",
           !.objects = @ \cup {variant_playlist(VideoId, playlist_call.resolution)},
           !.playlist = PlaylistSegments(playlist_call.chunk_count),
           !.val = <<[resolution |-> playlist_call.resolution,
                      playlist_key |-> variant_playlist(VideoId, playlist_call.resolution),
                      segment_count |-> playlist_call.chunk_count,
                      bandwidth |-> HLS_BANDWIDTH[playlist_call.resolution],
                      success |-> TRUE]>>]

\* upload_fileobj returns False: RuntimeError, nothing stored
PlaylistUploadFails ==
    /\ playlist_call.pc = "called"
    /\ missing_segments(playlist_call) = <<>>
    /\ playlist_call' = [playlist_call EXCEPT !.pc = "raised"]

NextPlaylist ==
    /\ \/ PlaylistSegmentsMissing
       \/ PlaylistUploaded
       \/ PlaylistUploadFails
    /\ UNCHANGED <<pipeline, beside_playlist_call>>

SpecPlaylist == InitPlaylist /\ [][NextPlaylist]_vars

\* the indices 0..chunk_count-1 whose segment is not in the bucket
AbsentSegments(call) ==
    {idx \in 0..(call.chunk_count - 1) :
        output_segment(VideoId, call.resolution, idx) \notin call.objects}

\* the call uploads the playlist only when no segment is absent, and with a
\* segment absent it raises and leaves the bucket and the stored playlist as
\* they were
C34_WritesOnlyWhenComplete ==
    /\ playlist_call'.objects # playlist_call.objects
           \/ playlist_call'.playlist # playlist_call.playlist
           \/ playlist_call'.pc = "returned"
       => AbsentSegments(playlist_call) = {}
    /\ AbsentSegments(playlist_call) # {} /\ playlist_call' # playlist_call
       => /\ playlist_call'.pc = "raised"
          /\ playlist_call'.objects = playlist_call.objects
          /\ playlist_call'.playlist = playlist_call.playlist
          /\ playlist_call'.val = <<>>

\* the indices the error of a failed call names
NamedIndices == {playlist_call.error.named[i] : i \in DOMAIN playlist_call.error.named}

\* C34 as stated: generate_hls_playlist uploads the variant playlist only if
\* every segment 0..chunk_count-1 exists at that moment; with a segment
\* missing it fails naming the missing indices, all of them, and writes
\* nothing, any stored playlist staying as it was.
C34_MissingAllNamed ==
    /\ [][C34_WritesOnlyWhenComplete]_vars
    /\ [](playlist_call.pc = "raised" /\ AbsentSegments(playlist_call) # {}
            => NamedIndices = AbsentSegments(playlist_call))

\* C34 amended: generate_hls_playlist uploads the variant playlist only if
\* every segment 0..chunk_count-1 exists at that moment; with a segment
\* missing it fails naming the first ten missing indices and the number of
\* the others, and writes nothing, any stored playlist staying as it was.
C34_PlaylistOnlyWhenComplete ==
    /\ [][C34_WritesOnlyWhenComplete]_vars
    /\ [](playlist_call.pc = "returned"
            => /\ AbsentSegments(playlist_call) = {}
               /\ variant_playlist(VideoId, playlist_call.resolution) \in playlist_call.objects
               /\ playlist_call.playlist = PlaylistSegments(playlist_call.chunk_count))
    /\ [](playlist_call.pc = "raised" /\ AbsentSegments(playlist_call) # {}
            => /\ NamedIndices \subseteq AbsentSegments(playlist_call)
               /\ \A idx \in AbsentSegments(playlist_call) \ NamedIndices :
                      \A named \in NamedIndices : named < idx
               /\ Cardinality(NamedIndices) + playlist_call.error.more
                      = Cardinality(AbsentSegments(playlist_call))
               /\ playlist_call.error.more > 0
                      => Cardinality(NamedIndices) = NamedMissing)

\* a call failed on missing segments, more of them than the message lists,
\* with an earlier playlist in the bucket
C34_Witness ==
    /\ playlist_call.pc = "raised"
    /\ playlist_call.error.more > 0
    /\ playlist_call.playlist = EarlierPlaylist
    /\ variant_playlist(VideoId, playlist_call.resolution) \in playlist_call.objects

\* ------------------------------------------- a variant playlist that fails
\* the resolutions whose generate_hls_playlist returned, or failed, in this run
PublishedThisRun ==
    {playlist_tasks[j].resolution :
        j \in {i \in DOMAIN playlist_tasks : playlist_tasks[i].task.st = "ok"}}

FailedPlaylists ==
    {playlist_tasks[j].resolution :
        j \in {i \in DOMAIN playlist_tasks : playlist_tasks[i].task.st = "failed"}}

\* the resolutions the master playlist written in this run references
MasterReferenced ==
    IF acts["master"].st = "ok"
    THEN {acts["master"].val[2][i].name : i \in DOMAIN acts["master"].val[2]}
    ELSE {}

\* run() has returned from its last return statement
ReturnedAtEnd == pc = "done" /\ playlist_tasks # <<>>

\* the master playlist references only resolutions whose variant playlist
\* was published in this run
C35_MasterOnlyPublished ==
    /\ MasterReferenced \subseteq PublishedThisRun
    /\ \A r \in MasterReferenced : variant_playlist(VideoId, r) \in store

\* the resolutions whose playlist was generated are in the result's variants
\* and, when the master playlist was written, in the master playlist
C35_OthersPublished ==
    ReturnedAtEnd =>
        \A r \in PublishedThisRun :
            /\ r \in Range(result.variants)
            /\ acts["master"].st = "ok" => r \in MasterReferenced

\* C35: when the variant playlist of a complete resolution fails, the
\* resolution is absent from the result's variants and from the master
\* playlist and the errors list names it, the other resolutions are
\* published, and the master playlist never references a resolution whose
\* variant playlist was not published in this run.
C35_FailedVariantLeftOut ==
    /\ C35_MasterOnlyPublished
    /\ C35_OthersPublished
    /\ ReturnedAtEnd =>
           \A r \in FailedPlaylists :
               /\ r \notin Range(result.variants)
               /\ r \notin MasterReferenced
               /\ \E i \in DOMAIN result.errors :
                      /\ result.errors[i].resolution = r
                      /\ result.errors[i].chunk_index = -1

\* the same for the runs whose target resolutions are all different
C35_FailedVariantLeftOutNoRepeat ==
    Cardinality(Range(target_resolutions)) = Len(target_resolutions)
        => C35_FailedVariantLeftOut

\* --------------------------------------------- chapter files that fail
\* generate_chapter_files did not produce the three files: the activity
\* failed, or returned success False, or an upload of it stored nothing
ChapterFilesFailed ==
    \/ acts["chapter_files"].st = "failed"
    \/ /\ acts["chapter_files"].st = "ok"
       /\ ~acts["chapter_files"].val[1] \/ ~(ChapterKeys \subseteq store)

\* C36: when chapter-file generation fails after a successful scene
\* detection, the terminal result has the success flag and the variants it
\* has without the failure, a warning for component chapter_files, and no
\* chapter file keys.
C36_ChapterFailureIsWarning ==
    pc = "done" /\ scene_result = "ok" /\ ChapterFilesFailed =>
        /\ result.success = (Len(variants) > 0)
        /\ result.variants = [i \in 1..Len(variants) |-> variants[i].resolution]
        /\ "chapter_files" \in Range(result.warnings)
        /\ result.chapter_files = None

\* the same for the failures the coordinator sees as an ActivityError
C36_ActivityErrorIsWarning ==
    pc = "done" /\ scene_result = "ok" /\ acts["chapter_files"].st = "failed" =>
        /\ result.success = (Len(variants) > 0)
        /\ result.variants = [i \in 1..Len(variants) |-> variants[i].resolution]
        /\ "chapter_files" \in Range(result.warnings)
        /\ result.chapter_files = None

\* a failure generate_chapter_files reports by success False is warned about
C36_UnsuccessfulIsWarning ==
    pc = "done" /\ acts["chapter_files"].st = "ok" /\ ~acts["chapter_files"].val[1]
        => "chapter_files" \in Range(result.warnings)

\* the result reports only chapter files that are in the store
C36_ReportedKeysStored ==
    pc = "done" /\ acts["chapter_files"].st = "ok" /\ result.chapter_files # None
        => Range(result.chapter_files) \subseteq store

\* --------------------------------------- generate_master_playlist, one call
\* chunked_transcode.py generate_master_playlist(video_id, variants), given
\* any list of the dicts generate_hls_playlist returns.
MaxVariants == 3

RECURSIVE VariantLists(_)
VariantLists(n) ==
    IF n = 0 THEN {<<>>}
    ELSE VariantLists(n - 1)
         \cup {Append(vs, VariantOf(r, 1)) :
                  vs \in {l \in VariantLists(n - 1) : Len(l) = n - 1},
                  r \in VALID_RESOLUTIONS}

InitMaster ==
    /\ \E vs \in VariantLists(MaxVariants) :
           ApartInit("master_call",
               [variants |-> vs, pc |-> "called", stored |-> <<>>, val |-> <<>>])
    /\ PipelineAtRest

\* the playlist is built and upload_fileobj stores it
MasterUploaded ==
    /\ master_call.pc = "called"
    /\ master_call' = [master_call EXCEPT
           !.pc = "returned",
           !.stored = <<MasterEntries(master_call.variants)>>,
           !.val = <<[master_playlist_key |-> master_playlist(VideoId),
                      variant_count |-> Len(master_call.variants),
                      variants |-> [i \in 1..Len(master_call.variants) |->
                                       sorted_variants(master_call.variants)[i].resolution],
                      success |-> TRUE]>>]

\* upload_fileobj returns False: RuntimeError
MasterUploadFails ==
    /\ master_call.pc = "called"
    /\ master_call' = [master_call EXCEPT !.pc = "raised"]

NextMaster ==
    /\ \/ MasterUploaded
       \/ MasterUploadFails
    /\ UNCHANGED <<pipeline, beside_master_call>>

SpecMaster == InitMaster /\ [][NextMaster]_vars

\* how many elements of a sequence satisfy a test
CountIn(s, Test(_)) == Cardinality({i \in DOMAIN s : Test(s[i])})

\* C37: the master playlist lists every variant given exactly once, in
\* descending order of bandwidth whatever the order of the input list, and
\* the entry of a variant references {resolution}/playlist.m3u8.
C37_MasterListsEachVariantOnce ==
    master_call.pc = "returned" =>
        LET entries == master_call.stored[1]
            given == master_call.variants
        IN  /\ Len(entries) = Len(given)
            /\ \A r \in VALID_RESOLUTIONS :
                   CountIn(entries, LAMBDA e : e.name = r)
                       = CountIn(given, LAMBDA v : v.resolution = r)
            /\ \A i \in DOMAIN entries :
                   /\ entries[i].uri = entries[i].name \o "/playlist.m3u8"
                   /\ entries[i].bandwidth = HLS_BANDWIDTH[entries[i].name]
            /\ \A i, j \in DOMAIN entries :
                   i < j => entries[i].bandwidth >= entries[j].bandwidth

\* a master playlist was written for three variants given in ascending order
\* of bandwidth
C37_Witness ==
    /\ master_call.pc = "returned"
    /\ Len(master_call.variants) = 3
    /\ master_call.variants[1].bandwidth < master_call.variants[2].bandwidth
    /\ master_call.variants[2].bandwidth < master_call.variants[3].bandwidth
    /\ master_call.stored[1][1].name = master_call.variants[3].resolution

\* --------------------------------------------- the chapters as a partition
\* C38: the chapters of a successful detect_scenes partition the video: at
\* least one chapter, the first starting at 0, the last ending at the video
\* duration, each starting where the one before ends, indices 0..n-1 in time
\* order, only the first possibly marked intro and only the last outro.
C38_ChaptersPartitionVideo ==
    (scene_call.returned /\ scene_call.success) =>
        LET chapters == scene_call.chapters
            n == Len(chapters)
        IN  /\ n >= 1
            /\ chapters[1].start_time = 0
            /\ chapters[n].end_time = scene_call.video_duration
            /\ \A i \in 1..n :
                   /\ chapters[i].index = i - 1
                   /\ chapters[i].start_time < chapters[i].end_time
                   /\ chapters[i].duration
                          = chapters[i].end_time - chapters[i].start_time
                   /\ i > 1 => chapters[i].start_time = chapters[i - 1].end_time
                   /\ chapters[i].is_intro => i = 1
                   /\ chapters[i].is_outro => i = n

\* three chapters came back, the first marked intro and the last outro
C38_Witness ==
    /\ scene_call.returned
    /\ scene_call.success
    /\ Len(scene_call.chapters) = 3
    /\ scene_call.chapters[1].is_intro
    /\ scene_call.chapters[3].is_outro
    /\ ~scene_call.chapters[2].is_intro
    /\ ~scene_call.chapters[2].is_outro
    /\ scene_call.scene_timestamps # <<>>

\* ------------------------------------ sync server: the object of the file
\* the content hash an object was stored under: the first field of its key
HashInKey(storage_key) == storage_key[1]

\* C39: after any interleaving of concurrent uploads to one file the object
\* under the file's current storage_key exists in the object store and holds
\* the content whose hash the file record has; the clean-up after a rejected
\* upload never removes the object of an accepted version.
C39_CurrentObjectKept ==
    /\ sync.storage_key \in sync.objects
    /\ HashInKey(sync.storage_key) = sync.content_hash
    /\ \A r \in 1..MaxSyncUploads :
           sync.uploads[r].rowcount = 1 /\ sync.uploads[r].storage_key = sync.storage_key
               => sync.uploads[r].storage_key \in sync.objects

\* the record always names the key made from its own version and hash
C39_KeyMatchesRecord ==
    sync.storage_key = generate_storage_key(sync.version, sync.content_hash)

\* ------------------------------------- a part refused for its checksum
\* a part request refused for a checksum mismatch leaves completed_parts,
\* part_hashes and the bytes of the part file as they were
C40_MismatchChangesNothing ==
    \A u \in 1..MaxPartUploads :
        ChecksumMismatch(u) =>
            /\ multipart'.completed_parts = multipart.completed_parts
            /\ multipart'.part_hashes = multipart.part_hashes
            /\ multipart'.part_bytes = multipart.part_bytes

\* the bytes of a recorded part are those whose hash was recorded, in the
\* part file while the session directory is there and in the file the
\* session was completed with
C40_AcceptedCopyKept ==
    /\ multipart.session_dir =>
           \A p \in Range(multipart.completed_parts) :
               md5(multipart.part_bytes[p]) = multipart.part_hashes[p]
    /\ multipart.status = "completed" =>
           \A p \in 1..multipart.total_parts :
               md5(multipart.final_file[p]) = multipart.part_hashes[p]

\* C40: a part upload rejected for a checksum mismatch leaves the session
\* unchanged: completed_parts, part_hashes and the stored bytes of the part
\* are as before the request, so that the copy of the part accepted earlier
\* is the one complete assembles.
C40_RejectedPartLeavesSession ==
    /\ [][C40_MismatchChangesNothing]_vars
    /\ []C40_AcceptedCopyKept

\* the record of the session is untouched by a refused part
C40_RecordUntouched ==
    [][\A u \in 1..MaxPartUploads :
           ChecksumMismatch(u) =>
               /\ multipart'.completed_parts = multipart.completed_parts
               /\ multipart'.part_hashes = multipart.part_hashes
               /\ multipart'.status = multipart.status]_vars

====
